---- MODULE Spec2Model ----
(***************************************************************************)
(* Model of aww::sanitize_html (include/aww-html/aww-html.hpp): the        *)
(* tokenizer, the attribute mini-parser, the href check and the unified    *)
(* sanitize pass with its open-tag stack.                                  *)
(*                                                                         *)
(* A std::string is a sequence of one-character strings.  Positions are    *)
(* 1-based: a C++ index p is the model's p + 1, and npos is 0.             *)
(***************************************************************************)
EXTENDS Integers, Sequences, FiniteSets, TLC

VARIABLES
  input,      \* the `input` argument of sanitize_html
  settings,   \* the `settings` argument of sanitize_html
  pc,         \* "tokenize", "sanitize", "drain", "done"
  pos,        \* tokenize_html: the cursor `pos` (1-based)
  tokens,     \* tokenize_html: the vector `tokens`
  i,          \* sanitize_html: the loop index `i` (1-based)
  output,     \* sanitize_html: the string `output`
  open_tags,  \* sanitize_html: the vector `open_tags`
  result,     \* the returned aww::result; its kind is "none" before the return
  emitted,    \* history of the pieces appended to `output`, in order
  call,       \* concurrent calls: per call its `input` argument, position and result
  frame,      \* concurrent calls: per stack frame the locals pos, tokens, i, output, open_tags
  m_topics,   \* pubsub_event_bus::m_topics: event type -> [m_last_id, m_subscribers]
  m_map_mutex,\* pubsub_event_bus::m_map_mutex: the thread that holds it, or 0
  handles,    \* the pubsub_subscription of every subscribe call: owner, type, id, state
  thread,     \* per thread: the call it is in and the locals of that call
  received,   \* per callback: how many times it has been called
  published,  \* per event type: how many publish calls were made
  m_result,   \* aww::result::m_result, the variant
  built,      \* the factory call that built the result and its argument
  accesses,   \* the member calls made on the result, each with its outcome
  subscriptions, \* pubsub_subscription objects: m_unsubscribe and whether destroyed
  ran,        \* history of the unsubscribe functions that were run, in order
  m_mutex,    \* pubsub_topic::m_mutex per event type: the thread that holds it, or 0
  bus_stack   \* per thread: the frames of the bus calls it is in, innermost last

\* The state of the calls that run side by side.
pairVars == <<call, frame>>

\* The state of the event bus.
busVars == <<m_topics, m_map_mutex, handles, thread, received, published>>

\* The state of the aww::result object.
resultVars == <<m_result, built, accesses>>

\* The pubsub_subscription objects followed through their member calls.
handleVars == <<subscriptions, ran>>

\* The mutexes of the topics and the call stacks of the threads.
lockVars == <<m_mutex, bus_stack>>

\* The state outside the one call of sanitize_html that is followed alone.
outside == <<pairVars, busVars, resultVars, handleVars, lockVars>>

vars == <<input, settings, pc, pos, tokens, i, output, open_tags, result, emitted, outside>>

----------------------------------------------------------------------------
(* Bounds of the model checking.                                           *)

MaxItems == 3

MaxAttrs == 2

----------------------------------------------------------------------------
(* Strings.                                                                *)

Min(a, b) == IF a < b THEN a ELSE b

\* std::string::substr(p, n) with the 1-based position p.
Substr(s, p, n) == SubSeq(s, p, Min(p + n - 1, Len(s)))

\* std::string::substr(p): the tail from the 1-based position p.
SubstrFrom(s, p) == SubSeq(s, p, Len(s))

\* std::string::find(ch, from): the first position >= from holding ch,
\* 0 (npos) when there is none.
FindChar(s, ch, from) ==
  LET hits == {k \in from..Len(s) : s[k] = ch}
  IN  IF hits = {} THEN 0 ELSE CHOOSE k \in hits : \A m \in hits : k <= m

\* std::string::find(pat, from) for a non-empty pattern.
FindStr(s, pat, from) ==
  LET hits == {k \in from..(Len(s) - Len(pat) + 1) : SubSeq(s, k, k + Len(pat) - 1) = pat}
  IN  IF hits = {} THEN 0 ELSE CHOOSE k \in hits : \A m \in hits : k <= m

\* std::string::starts_with.
StartsWith(s, pat) == Len(s) >= Len(pat) /\ SubSeq(s, 1, Len(pat)) = pat

\* Is pat a substring of s.
Contains(s, pat) == FindStr(s, pat, 1) # 0

RECURSIVE Concat(_)
Concat(ss) == IF ss = <<>> THEN <<>> ELSE Head(ss) \o Concat(Tail(ss))

\* std::isspace in the "C" locale (TLA+ has no escape for \v).
IsSpace(ch) == ch \in {" ", "\t", "\n", "\r", "\f"}

UpperLetters ==
  <<"A","B","C","D","E","F","G","H","I","J","K","L","M",
    "N","O","P","Q","R","S","T","U","V","W","X","Y","Z">>

LowerLetters ==
  <<"a","b","c","d","e","f","g","h","i","j","k","l","m",
    "n","o","p","q","r","s","t","u","v","w","x","y","z">>

\* std::tolower on one character.
LowerChar(ch) ==
  IF \E k \in 1..26 : UpperLetters[k] = ch
  THEN LowerLetters[CHOOSE k \in 1..26 : UpperLetters[k] = ch]
  ELSE ch

\* aww::to_lower_case / to_lower_case_inplace.
RECURSIVE to_lower_case(_)
to_lower_case(s) ==
  IF s = <<>> THEN <<>> ELSE <<LowerChar(Head(s))>> \o to_lower_case(Tail(s))

\* aww::string_trim_inplace: erase leading and trailing isspace characters.
string_trim_inplace(s) ==
  LET keep == {k \in 1..Len(s) : ~IsSpace(s[k])}
  IN  IF keep = {} THEN <<>>
      ELSE SubSeq(s, CHOOSE k \in keep : \A m \in keep : k <= m,
                     CHOOSE k \in keep : \A m \in keep : k >= m)

----------------------------------------------------------------------------
(* Constants of aww-html.hpp.                                              *)

k_comment_start == <<"<","!","-","-">>
k_comment_end == <<"-","-",">">>
k_cdata_start == <<"<","!","[","C","D","A","T","A","[">>
\* Mutant of k_cdata_end: the section ends at the first `>`.
k_cdata_end_angle == <<">">>

k_cdata_end == <<"]","]",">">>
k_dangerous_full_tag == <<"s","c","r","i","p","t">>

k_dangerous_tags ==
  { <<"s","c","r","i","p","t">>, <<"i","f","r","a","m","e">>, <<"x","m","l">>,
    <<"e","m","b","e","d">>, <<"o","b","j","e","c","t">>, <<"b","a","s","e">>,
    <<"s","t","y","l","e">> }

k_void_elements == { <<"b","r">>, <<"h","r">>, <<"i","m","g">> }

k_allowed_protocols == { <<"h","t","t","p",":">>, <<"h","t","t","p","s",":">> }

block_level_tags ==
  { <<"h","1">>, <<"h","2">>, <<"h","3">>, <<"h","4">>, <<"h","5">>, <<"h","6">>,
    <<"p">>, <<"b","l","o","c","k","q","u","o","t","e">>, <<"p","r","e">>,
    <<"h","r">>, <<"b","r">>, <<"u","l">>, <<"o","l">>, <<"l","i">>,
    <<"d","l">>, <<"d","t">>, <<"d","d">> }

inline_tags ==
  { <<"b">>, <<"s","t","r","o","n","g">>, <<"i">>, <<"e","m">>, <<"u">>, <<"s">>,
    <<"s","u","b">>, <<"s","u","p">>, <<"s","m","a","l","l">>, <<"m","a","r","k">>,
    <<"a","b","b","r">>, <<"c","i","t","e">>, <<"q">>, <<"c","o","d","e">>,
    <<"k","b","d">>, <<"v","a","r">>, <<"t","i","m","e">>, <<"d","f","n">>,
    <<"b","d","i">>, <<"b","d","o">>, <<"a">> }

\* The tag names listed for m_allowed_tags in default_sanitize_html_settings.
default_allowed_tags ==
  { <<"h","1">>, <<"h","2">>, <<"h","3">>, <<"h","4">>, <<"h","5">>, <<"h","6">>,
    <<"p">>, <<"b","l","o","c","k","q","u","o","t","e">>, <<"p","r","e">>, <<"h","r">>,
    <<"b","r">>, <<"u","l">>, <<"o","l">>, <<"l","i">>, <<"d","l">>, <<"d","t">>,
    <<"d","d">>, <<"b">>, <<"s","t","r","o","n","g">>, <<"i">>,
    <<"e","m">>, <<"u">>, <<"s">>, <<"s","u","b">>, <<"s","u","p">>,
    <<"s","m","a","l","l">>, <<"m","a","r","k">>, <<"a","b","b","r">>,
    <<"c","i","t","e">>, <<"q">>,
    <<"c","o","d","e">>, <<"k","b","d">>, <<"v","a","r">>, <<"t","i","m","e">>,
    <<"d","f","n">>, <<"b","d","i">>, <<"b","d","o">>, <<"a">> }

\* Mutant of default_settings_allowed: "style" is allowed too.
default_settings_allowed_style == default_allowed_tags \cup {<<"s","t","y","l","e">>}

\* The first member of the initializer of default_sanitize_html_settings.
default_settings_allowed == default_allowed_tags

default_sanitize_html_settings ==
  [ m_allowed_tags |-> default_settings_allowed,
    m_block_level_tags |-> block_level_tags,
    m_inline_tags |-> inline_tags,
    m_preserve_structure |-> TRUE ]

----------------------------------------------------------------------------
(* Escaping.                                                               *)

\* escape_unclosed: only '<' becomes "&lt;".
RECURSIVE escape_unclosed(_)
escape_unclosed(text) ==
  IF text = <<>> THEN <<>>
  ELSE (IF Head(text) = "<" THEN <<"&","l","t",";">> ELSE <<Head(text)>>)
       \o escape_unclosed(Tail(text))

\* The replacement escape_html makes for one character.
EscapeChar(ch) ==
  CASE ch = "<" -> <<"&","l","t",";">>
    [] ch = ">" -> <<"&","g","t",";">>
    [] ch = "&" -> <<"&","a","m","p",";">>
    [] ch = "\"" -> <<"&","q","u","o","t",";">>
    [] OTHER -> <<ch>>

\* escape_html: '<', '>', '&' and '"' become character references.
RECURSIVE escape_html(_)
escape_html(text) ==
  IF text = <<>> THEN <<>> ELSE EscapeChar(Head(text)) \o escape_html(Tail(text))

----------------------------------------------------------------------------
(* 1. Tokenization.                                                        *)

Token(type, content, tag_name, attr_str, unclosed) ==
  [ m_type |-> type, m_content |-> content, m_tag_name |-> tag_name,
    m_attr_str |-> attr_str, m_unclosed |-> unclosed ]

\* `stream >> tag_name`: skip leading whitespace, read up to the next
\* whitespace.  The result is <<name, position after the name>>.
StreamWord(s) ==
  LET nonsp == {k \in 1..Len(s) : ~IsSpace(s[k])}
      first == IF nonsp = {} THEN Len(s) + 1
               ELSE CHOOSE k \in nonsp : \A m \in nonsp : k <= m
      sp    == {k \in first..Len(s) : IsSpace(s[k])}
      stop  == IF sp = {} THEN Len(s) + 1
               ELSE CHOOSE k \in sp : \A m \in sp : k <= m
  IN  <<SubSeq(s, first, stop - 1), stop>>

\* `std::getline(stream, attr_str)` after the extraction of the name: the
\* characters up to the next '\n', which is consumed and not stored.  When
\* the extraction failed or hit the end of the stream, the string stays empty.
StreamLine(s, from) ==
  IF from > Len(s) THEN <<>>
  ELSE LET nl == FindChar(s, "\n", from)
       IN  IF nl = 0 THEN SubstrFrom(s, from) ELSE SubSeq(s, from, nl - 1)

\* Mutant of TagToken: the tag name is kept as written.
TagTokenCaseKept(tag_content, is_end_tag) ==
  LET word     == StreamWord(tag_content)
      attr_str == StreamLine(tag_content, word[2])
      tag_name == word[1]
  IN  IF is_end_tag THEN Token("end_tag", <<>>, tag_name, <<>>, FALSE)
      ELSE Token("start_tag", <<>>, tag_name, attr_str, FALSE)

\* The token made from the tag body between tag_start and '>'.
TagToken(tag_content, is_end_tag) ==
  LET word     == StreamWord(tag_content)
      attr_str == StreamLine(tag_content, word[2])
      tag_name == to_lower_case(word[1])
  IN  IF is_end_tag THEN Token("end_tag", <<>>, tag_name, <<>>, FALSE)
      ELSE Token("start_tag", <<>>, tag_name, attr_str, FALSE)

\* One iteration of the while loop of tokenize_html at cursor p: the tokens
\* appended and the next cursor; stop is TRUE when the iteration breaks.
TokenizeIteration(in, p) ==
  IF Substr(in, p, Len(k_cdata_start)) = k_cdata_start THEN
    LET end_cdata == FindStr(in, k_cdata_end, p + Len(k_cdata_start))
    IN  IF end_cdata = 0
        THEN [toks |-> <<>>, next |-> Len(in) + 1, stop |-> FALSE]
        ELSE [toks |-> <<>>, next |-> end_cdata + Len(k_cdata_end), stop |-> FALSE]
  ELSE IF in[p] = "<" THEN
    IF Substr(in, p, Len(k_comment_start)) = k_comment_start THEN
      LET end_comment == FindStr(in, k_comment_end, p + Len(k_comment_start))
      IN  IF end_comment = 0
          THEN [toks |-> <<Token("comment", SubstrFrom(in, p), <<>>, <<>>, FALSE)>>,
                next |-> p, stop |-> TRUE]
          ELSE [toks |-> <<Token("comment",
                                 SubSeq(in, p + Len(k_comment_start), end_comment - 1),
                                 <<>>, <<>>, FALSE)>>,
                next |-> end_comment + Len(k_comment_end), stop |-> FALSE]
    ELSE
      LET is_end_tag == p + 1 <= Len(in) /\ in[p + 1] = "/"
          tag_start  == IF is_end_tag THEN p + 2 ELSE p + 1
          tag_end    == FindChar(in, ">", p)
      IN  IF tag_end = 0
          THEN [toks |-> <<Token("text", escape_unclosed(SubstrFrom(in, p)),
                                 <<>>, <<>>, TRUE)>>,
                next |-> p, stop |-> TRUE]
          ELSE [toks |-> <<TagToken(SubSeq(in, tag_start, tag_end - 1), is_end_tag)>>,
                next |-> tag_end + 1, stop |-> FALSE]
  ELSE
    LET found    == FindChar(in, "<", p)
        next_tag == IF found = 0 THEN Len(in) + 1 ELSE found
    IN  [toks |-> <<Token("text", SubSeq(in, p, next_tag - 1), <<>>, <<>>, FALSE)>>,
         next |-> next_tag, stop |-> FALSE]

----------------------------------------------------------------------------
(* 2. Attribute parsing.                                                   *)

\* The first position >= p that holds no whitespace, Len(s) + 1 if none.
SkipSpace(s, p) ==
  LET stops == {k \in p..Len(s) : ~IsSpace(s[k])}
  IN  IF stops = {} THEN Len(s) + 1 ELSE CHOOSE k \in stops : \A m \in stops : k <= m

\* The end of a name run: the first position >= p holding whitespace or '='.
NameEnd(s, p) ==
  LET stops == {k \in p..Len(s) : IsSpace(s[k]) \/ s[k] = "="}
  IN  IF stops = {} THEN Len(s) + 1 ELSE CHOOSE k \in stops : \A m \in stops : k <= m

\* The end of an unquoted value: the first position >= p holding whitespace.
ValueEnd(s, p) ==
  LET stops == {k \in p..Len(s) : IsSpace(s[k])}
  IN  IF stops = {} THEN Len(s) + 1 ELSE CHOOSE k \in stops : \A m \in stops : k <= m

\* Mutant of MapPut: a name already in the map keeps its value, as with
\* std::map::emplace.
MapPutFirst(attrs, name, value) ==
  [n \in (DOMAIN attrs) \cup {name} |-> IF n \in DOMAIN attrs THEN attrs[n] ELSE value]

\* attrs[name] = value on a std::map.
MapPut(attrs, name, value) ==
  [n \in (DOMAIN attrs) \cup {name} |-> IF n = name THEN value ELSE attrs[n]]

EmptyMap == [n \in {} |-> <<>>]

\* Mutant of AttrValue: the value is stored without string_trim_inplace.
AttrValueUntrimmed(s, eq) ==
  LET p == SkipSpace(s, eq + 1)
  IN  IF p <= Len(s) /\ s[p] \in {"\"", "'"}
      THEN LET value_end == FindChar(s, s[p], p + 1)
           IN  IF value_end # 0
               THEN <<SubSeq(s, p + 1, value_end - 1), value_end + 1>>
               ELSE <<SubstrFrom(s, p + 1), Len(s) + 1>>
      ELSE LET e == ValueEnd(s, p)
           IN  <<SubSeq(s, p, e - 1), e>>

\* The value read after an '=' at position eq: <<value, next position>>.
AttrValue(s, eq) ==
  LET p == SkipSpace(s, eq + 1)
  IN  IF p <= Len(s) /\ s[p] \in {"\"", "'"}
      THEN LET value_end == FindChar(s, s[p], p + 1)
           IN  IF value_end # 0
               THEN <<string_trim_inplace(SubSeq(s, p + 1, value_end - 1)), value_end + 1>>
               ELSE <<string_trim_inplace(SubstrFrom(s, p + 1)), Len(s) + 1>>
      ELSE LET e == ValueEnd(s, p)
           IN  <<string_trim_inplace(SubSeq(s, p, e - 1)), e>>

\* One iteration of the outer while loop of parse_attributes that starts at
\* position p and does not break: the name and value read and the position
\* it leaves.
AttrIteration(s, p) ==
  LET name_start == SkipSpace(s, p)
      name_end   == NameEnd(s, name_start)
      q          == SkipSpace(s, name_end)
      has_eq     == q <= Len(s) /\ s[q] = "="
      val        == IF has_eq THEN AttrValue(s, q) ELSE <<(<<>>), q>>
  IN  [ name  |-> to_lower_case(SubSeq(s, name_start, name_end - 1)),
        value |-> val[1],
        next  |-> val[2] ]

\* The outer while loop of parse_attributes from position p.
RECURSIVE ParseLoop(_, _, _)
ParseLoop(s, p, attrs) ==
  IF SkipSpace(s, p) > Len(s) THEN attrs
  ELSE LET it == AttrIteration(s, p)
       IN  ParseLoop(s, it.next,
                     IF it.name # <<>> THEN MapPut(attrs, it.name, it.value) ELSE attrs)

parse_attributes(attr_str) == ParseLoop(attr_str, 1, EmptyMap)

\* is_safe_href: left-trim " \t\n\r", lower-case, test the allowed protocols.
is_safe_href(href) ==
  LET keep    == {k \in 1..Len(href) : href[k] \notin {" ", "\t", "\n", "\r"}}
      trimmed == IF keep = {} THEN <<>>
                 ELSE SubstrFrom(href, CHOOSE k \in keep : \A m \in keep : k <= m)
  IN  \E protocol \in k_allowed_protocols : StartsWith(to_lower_case(trimmed), protocol)

\* Strip one leading and one trailing quote character.
StripQuotes(s) ==
  LET a == IF s # <<>> /\ Head(s) \in {"\"", "'"} THEN Tail(s) ELSE s
  IN  IF a # <<>> /\ a[Len(a)] \in {"\"", "'"} THEN SubSeq(a, 1, Len(a) - 1) ELSE a

\* The text after the first '=' of s, quotes stripped; empty without '='.
AfterEquals(s) ==
  LET pos_eq == FindChar(s, "=", 1)
  IN  IF pos_eq = 0 THEN <<>> ELSE StripQuotes(SubstrFrom(s, pos_eq + 1))

event_trailer == <<"&","q","u","o","t",";","&","g","t",";">>

extract_event_content(attr_str) ==
  LET pos_slash == FindChar(attr_str, "/", 1)
      extracted == IF pos_slash # 0 THEN AfterEquals(SubstrFrom(attr_str, pos_slash + 1))
                   ELSE AfterEquals(attr_str)
      n         == Len(extracted) - Len(event_trailer)
  IN  IF n >= 0 /\ SubstrFrom(extracted, n + 1) = event_trailer
      THEN SubSeq(extracted, 1, n) ELSE extracted

----------------------------------------------------------------------------
(* 3. The unified pass: what one iteration of the for loop does.           *)

\* One output.append(str); kind is "text", "start" or "end".
Piece(kind, str) == [kind |-> kind, str |-> str]

StartTagText(tag_name) == <<"<">> \o tag_name \o <<">">>

EndTagText(tag_name) == <<"<", "/">> \o tag_name \o <<">">>

\* What an iteration leaves behind: the pieces appended to output, the
\* open-tag stack, and the value of i at the next test of the loop condition.
Step(pieces, stack, next) == [pieces |-> pieces, open_tags |-> stack, next |-> next]

\* tag_name.size() < "script".size() and "script".substr(0, size) == tag_name.
is_script_prefix(tag_name) ==
  /\ Len(tag_name) < Len(k_dangerous_full_tag)
  /\ SubSeq(k_dangerous_full_tag, 1, Len(tag_name)) = tag_name

\* case token_type::text.
TextStep(tok, stack, st, idx) ==
  IF tok.m_unclosed THEN Step(<<Piece("text", tok.m_content)>>, stack, idx + 1)
  ELSE LET text == tok.m_content
           is_inside_inline_tag == stack # <<>> /\ stack[Len(stack)] \in st.m_inline_tags
           ends_with_paren == text # <<>> /\ text[Len(text)] = ")"
           kept == IF is_inside_inline_tag /\ ends_with_paren
                   THEN SubSeq(text, 1, Len(text) - 1) ELSE text
       IN  Step(<<Piece("text", escape_html(kept))>>, stack, idx + 1)

\* Mutant of ObfuscatedNext: when no closing prefix tag follows, the loop
\* index is left at the start tag.
ObfuscatedNextStuck(toks, idx) ==
  LET ends == {j \in (idx + 1)..Len(toks) :
                 toks[j].m_type = "end_tag" /\ is_script_prefix(toks[j].m_tag_name)}
  IN  IF ends = {} THEN idx
      ELSE (CHOOSE j \in ends : \A m \in ends : j <= m) + 1

\* `while (++i < tokens.size())` leaving at the first end tag whose name is
\* a prefix of "script", followed by `continue` and the loop's own ++i.
ObfuscatedNext(toks, idx) ==
  LET ends == {j \in (idx + 1)..Len(toks) :
                 toks[j].m_type = "end_tag" /\ is_script_prefix(toks[j].m_tag_name)}
  IN  IF ends = {} THEN Len(toks) + 2
      ELSE (CHOOSE j \in ends : \A m \in ends : j <= m) + 1

\* The branch taken for a prefix of "script" followed by a text token.
ObfuscatedStep(toks, idx, stack) ==
  LET remainder == SubstrFrom(k_dangerous_full_tag, Len(toks[idx].m_tag_name) + 1)
      next_text == toks[idx + 1].m_content
      rest      == IF StartsWith(next_text, remainder)
                   THEN SubstrFrom(next_text, Len(remainder) + 1) ELSE next_text
  IN  Step(<<Piece("text", escape_html(rest))>>, stack, ObfuscatedNext(toks, idx))

\* Mutant of AnchorStep: the test of the protocol of an unsafe href is
\* inverted, so the text extracted from the attribute string follows `<a>`.
AnchorStepLeak(tok, stack, idx) ==
  LET attrs      == parse_attributes(tok.m_attr_str)
      href       == <<"h","r","e","f">>
      has_href   == href \in DOMAIN attrs
      safe_href  == has_href /\ is_safe_href(attrs[href])
      lower_href == to_lower_case(attrs[href])
      protocol_substring == SubSeq(lower_href, 1, FindChar(lower_href, ":", 1))
      bare       == Piece("start", <<"<","a",">">>)
  IN  IF safe_href
      THEN Step(<<Piece("start", <<"<","a"," ","h","r","e","f","=","\"">>
                                  \o attrs[href] \o <<"\"",">">>)>>,
                Append(stack, tok.m_tag_name), idx + 1)
      ELSE IF has_href /\ protocol_substring \notin k_allowed_protocols
      THEN Step(<<bare, Piece("text", escape_html(extract_event_content(tok.m_attr_str)))>>,
                Append(stack, <<"a">>), idx + 1)
      ELSE Step(<<bare>>, Append(stack, tok.m_tag_name), idx + 1)

\* The anchor branch of an allowed tag.
AnchorStep(tok, stack, idx) ==
  LET attrs      == parse_attributes(tok.m_attr_str)
      href       == <<"h","r","e","f">>
      has_href   == href \in DOMAIN attrs
      safe_href  == has_href /\ is_safe_href(attrs[href])
      lower_href == to_lower_case(attrs[href])
      protocol_substring == SubSeq(lower_href, 1, FindChar(lower_href, ":", 1))
      bare       == Piece("start", <<"<","a",">">>)
  IN  IF safe_href
      THEN Step(<<Piece("start", <<"<","a"," ","h","r","e","f","=","\"">>
                                  \o attrs[href] \o <<"\"",">">>)>>,
                Append(stack, tok.m_tag_name), idx + 1)
      ELSE IF has_href /\ protocol_substring \in k_allowed_protocols
      THEN Step(<<bare, Piece("text", escape_html(extract_event_content(tok.m_attr_str)))>>,
                Append(stack, <<"a">>), idx + 1)
      ELSE Step(<<bare>>, Append(stack, tok.m_tag_name), idx + 1)

\* Mutant of AllowedStep: a void element is pushed like any other tag.
AllowedStepPushVoid(tok, stack, idx) ==
  IF tok.m_tag_name = <<"a">> THEN AnchorStep(tok, stack, idx)
  ELSE Step(<<Piece("start", StartTagText(tok.m_tag_name))>>,
            Append(stack, tok.m_tag_name), idx + 1)

\* The allowed tag branch.
AllowedStep(tok, stack, idx) ==
  IF tok.m_tag_name = <<"a">> THEN AnchorStep(tok, stack, idx)
  ELSE IF tok.m_tag_name \in k_void_elements
  THEN Step(<<Piece("start", StartTagText(tok.m_tag_name))>>, stack, idx + 1)
  ELSE Step(<<Piece("start", StartTagText(tok.m_tag_name))>>,
            Append(stack, tok.m_tag_name), idx + 1)

\* `while (++i < tokens.size() && depth > 0)`: the value of i on leaving it.
RECURSIVE DangerousLoop(_, _, _, _)
DangerousLoop(toks, idx, depth, tag_name) ==
  LET j == idx + 1
  IN  IF j <= Len(toks) /\ depth > 0
      THEN DangerousLoop(toks, j,
             IF toks[j].m_type = "start_tag" /\ toks[j].m_tag_name = tag_name THEN depth + 1
             ELSE IF toks[j].m_type = "end_tag" /\ toks[j].m_tag_name = tag_name THEN depth - 1
             ELSE depth,
             tag_name)
      ELSE j

\* The disallowed tag branch: the dangerous skip, or the /name=value text.
DisallowedStep(toks, idx, stack) ==
  LET tag_name == toks[idx].m_tag_name
  IN  IF tag_name \in k_dangerous_tags
      THEN Step(<<>>, stack, DangerousLoop(toks, idx, 1, tag_name) + 1)
      ELSE LET pos_slash == FindChar(tag_name, "/", 1)
               event_str == SubstrFrom(tag_name, pos_slash + 1)
           IN  IF pos_slash # 0 /\ FindChar(event_str, "=", 1) # 0
               THEN Step(<<Piece("text", escape_html(AfterEquals(event_str)))>>, stack, idx + 1)
               ELSE Step(<<>>, stack, idx + 1)

\* Mutant of StartTagStep: the allowed-tag test is dropped, every tag that is
\* not dangerous is written.
StartTagStepAnyTag(toks, idx, stack, st) ==
  LET tok == toks[idx]
  IN  IF /\ is_script_prefix(tok.m_tag_name)
         /\ idx + 1 <= Len(toks)
         /\ toks[idx + 1].m_type = "text"
      THEN ObfuscatedStep(toks, idx, stack)
      ELSE IF tok.m_tag_name \notin k_dangerous_tags
      THEN AllowedStep(tok, stack, idx)
      ELSE DisallowedStep(toks, idx, stack)

\* case token_type::start_tag.
StartTagStep(toks, idx, stack, st) ==
  LET tok == toks[idx]
  IN  IF /\ is_script_prefix(tok.m_tag_name)
         /\ idx + 1 <= Len(toks)
         /\ toks[idx + 1].m_type = "text"
      THEN ObfuscatedStep(toks, idx, stack)
      ELSE IF tok.m_tag_name \in st.m_allowed_tags
      THEN AllowedStep(tok, stack, idx)
      ELSE DisallowedStep(toks, idx, stack)

\* Mutant of EndTagStep: the entry is popped and no closer is written.
EndTagStepSilentPop(tok, stack, idx) ==
  IF stack # <<>> /\ stack[Len(stack)] = tok.m_tag_name
  THEN Step(<<>>, SubSeq(stack, 1, Len(stack) - 1), idx + 1)
  ELSE Step(<<>>, stack, idx + 1)

\* Mutant of EndTagStep: an end tag also closes a deeper entry of its name,
\* which is taken off the stack.
EndTagStepDeeper(tok, stack, idx) ==
  LET at == {k \in 1..Len(stack) : stack[k] = tok.m_tag_name}
  IN  IF at # {}
      THEN LET k == CHOOSE k \in at : \A m \in at : m <= k
           IN  Step(<<Piece("end", EndTagText(tok.m_tag_name))>>,
                    SubSeq(stack, 1, k - 1) \o SubSeq(stack, k + 1, Len(stack)), idx + 1)
      ELSE Step(<<>>, stack, idx + 1)

\* Mutant of EndTagStep: the closer is written whenever a tag is open, without
\* comparing its name with the top of the stack.
EndTagStepAnyOpen(tok, stack, idx) ==
  IF stack # <<>>
  THEN Step(<<Piece("end", EndTagText(tok.m_tag_name))>>, SubSeq(stack, 1, Len(stack) - 1), idx + 1)
  ELSE Step(<<>>, stack, idx + 1)

\* case token_type::end_tag.
EndTagStep(tok, stack, idx) ==
  IF stack # <<>> /\ stack[Len(stack)] = tok.m_tag_name
  THEN Step(<<Piece("end", EndTagText(tok.m_tag_name))>>, SubSeq(stack, 1, Len(stack) - 1), idx + 1)
  ELSE Step(<<>>, stack, idx + 1)

\* The characters a sequence of pieces adds to output.
RECURSIVE PiecesText(_)
PiecesText(pieces) ==
  IF pieces = <<>> THEN <<>> ELSE Head(pieces).str \o PiecesText(Tail(pieces))

----------------------------------------------------------------------------
(* The two functions as operators, built from the same iterations.         *)

RECURSIVE TokenizeFrom(_, _, _)
TokenizeFrom(in, p, toks) ==
  IF p > Len(in) THEN toks
  ELSE LET it == TokenizeIteration(in, p)
       IN  IF it.stop THEN toks \o it.toks ELSE TokenizeFrom(in, it.next, toks \o it.toks)

tokenize_html(in) == TokenizeFrom(in, 1, <<>>)

\* The iteration of the for loop at token idx.
TokenStep(toks, idx, stack, st) ==
  CASE toks[idx].m_type = "text" -> TextStep(toks[idx], stack, st, idx)
    [] toks[idx].m_type = "comment" -> Step(<<>>, stack, idx + 1)
    [] toks[idx].m_type = "start_tag" -> StartTagStep(toks, idx, stack, st)
    [] toks[idx].m_type = "end_tag" -> EndTagStep(toks[idx], stack, idx)

\* The final `while (!open_tags.empty())`.
RECURSIVE Drain(_)
Drain(stack) ==
  IF stack = <<>> THEN <<>>
  ELSE EndTagText(stack[Len(stack)]) \o Drain(SubSeq(stack, 1, Len(stack) - 1))

RECURSIVE PassFrom(_, _, _, _, _)
PassFrom(toks, idx, out, stack, st) ==
  IF idx > Len(toks) THEN out \o Drain(stack)
  ELSE LET step == TokenStep(toks, idx, stack, st)
       IN  PassFrom(toks, step.next, out \o PiecesText(step.pieces), step.open_tags, st)

\* The string held by the result of sanitize_html(in, st).
sanitize_html(in, st) == PassFrom(tokenize_html(in), 1, <<>>, <<>>, st)

----------------------------------------------------------------------------
(* The state machine of one call of sanitize_html.                         *)

\* tokenize_html: one iteration of `while (pos < input.size())`.
TokenizeStep ==
  /\ pc = "tokenize"
  /\ pos <= Len(input)
  /\ LET it == TokenizeIteration(input, pos)
     IN  /\ tokens' = tokens \o it.toks
         /\ pos' = it.next
         /\ pc' = IF it.stop THEN "sanitize" ELSE "tokenize"
  /\ UNCHANGED <<input, settings, i, output, open_tags, result, emitted>>
  /\ UNCHANGED outside

\* tokenize_html: the loop condition fails and the tokens are returned.
TokenizeReturn ==
  /\ pc = "tokenize"
  /\ pos > Len(input)
  /\ pc' = "sanitize"
  /\ UNCHANGED <<input, settings, pos, tokens, i, output, open_tags, result, emitted>>
  /\ UNCHANGED outside

\* The effect of one iteration of the for loop of sanitize_html.
Apply(step) ==
  /\ output' = output \o PiecesText(step.pieces)
  /\ emitted' = emitted \o step.pieces
  /\ open_tags' = step.open_tags
  /\ i' = step.next
  /\ UNCHANGED <<input, settings, pc, pos, tokens, result>>
  /\ UNCHANGED outside

AtToken(type) == pc = "sanitize" /\ i <= Len(tokens) /\ tokens[i].m_type = type

TextToken == AtToken("text") /\ Apply(TextStep(tokens[i], open_tags, settings, i))

CommentToken == AtToken("comment") /\ Apply(Step(<<>>, open_tags, i + 1))

StartTagToken == AtToken("start_tag") /\ Apply(StartTagStep(tokens, i, open_tags, settings))

EndTagToken == AtToken("end_tag") /\ Apply(EndTagStep(tokens[i], open_tags, i))

\* The for loop ends: i < tokens.size() fails.
LoopExit ==
  /\ pc = "sanitize"
  /\ i > Len(tokens)
  /\ pc' = "drain"
  /\ UNCHANGED <<input, settings, pos, tokens, i, output, open_tags, result, emitted>>
  /\ UNCHANGED outside

\* Mutant of DrainStep: the names are closed in the order they were opened.
DrainStepOldestFirst ==
  /\ pc = "drain"
  /\ open_tags # <<>>
  /\ LET piece == Piece("end", EndTagText(Head(open_tags)))
     IN  /\ output' = output \o piece.str
         /\ emitted' = emitted \o <<piece>>
  /\ open_tags' = Tail(open_tags)
  /\ UNCHANGED <<input, settings, pc, pos, tokens, i, result>>
  /\ UNCHANGED outside

\* One iteration of `while (!open_tags.empty())`.
DrainStep ==
  /\ pc = "drain"
  /\ open_tags # <<>>
  /\ LET piece == Piece("end", EndTagText(open_tags[Len(open_tags)]))
     IN  /\ output' = output \o piece.str
         /\ emitted' = emitted \o <<piece>>
  /\ open_tags' = SubSeq(open_tags, 1, Len(open_tags) - 1)
  /\ UNCHANGED <<input, settings, pc, pos, tokens, i, result>>
  /\ UNCHANGED outside

\* Mutant of Return: an input cut off inside a tag is reported as an error.
ReturnErrOnUnclosed ==
  /\ pc = "drain"
  /\ open_tags = <<>>
  /\ pc' = "done"
  /\ result' = IF \E k \in 1..Len(tokens) : tokens[k].m_unclosed
                THEN [kind |-> "err", value |-> <<>>]
                ELSE [kind |-> "ok", value |-> output]
  /\ UNCHANGED <<input, settings, pos, tokens, i, output, open_tags, emitted>>
  /\ UNCHANGED outside

\* return aww::result<std::string>::ok(output).
Return ==
  /\ pc = "drain"
  /\ open_tags = <<>>
  /\ pc' = "done"
  /\ result' = [kind |-> "ok", value |-> output]
  /\ UNCHANGED <<input, settings, pos, tokens, i, output, open_tags, emitted>>
  /\ UNCHANGED outside

Next ==
  \/ TokenizeStep
  \/ TokenizeReturn
  \/ TextToken
  \/ CommentToken
  \/ StartTagToken
  \/ EndTagToken
  \/ LoopExit
  \/ DrainStep
  \/ Return

\* No concurrent calls are running.
PairAtRest == call = <<>> /\ frame = <<>>

\* No bus has been constructed.
BusAtRest ==
  /\ m_topics = <<>>
  /\ m_map_mutex = 0
  /\ handles = <<>>
  /\ thread = <<>>
  /\ received = <<>>
  /\ published = <<>>

\* No result object is examined.
ResultAtRest ==
  /\ m_result = [alt |-> "none"]
  /\ built = [by |-> "none"]
  /\ accesses = <<>>

\* No subscription object is followed.
HandleAtRest == subscriptions = <<>> /\ ran = <<>>

\* No thread is followed through the mutexes.
LocksAtRest == m_mutex = <<>> /\ bus_stack = <<>>

OutsideAtRest ==
  PairAtRest /\ BusAtRest /\ ResultAtRest /\ HandleAtRest /\ LocksAtRest

\* The state at the entry of sanitize_html(in, st).
Call(in, st) ==
  /\ input = in
  /\ settings = st
  /\ pc = "tokenize"
  /\ pos = 1
  /\ tokens = <<>>
  /\ i = 1
  /\ output = <<>>
  /\ open_tags = <<>>
  /\ result = [kind |-> "none", value |-> <<>>]
  /\ emitted = <<>>
  /\ OutsideAtRest

----------------------------------------------------------------------------
(* The inputs of the model checking.                                       *)

\* The concatenation of the first k strings of f.
RECURSIVE ConcatFirst(_, _)
ConcatFirst(f, k) == IF k = 0 THEN <<>> ELSE ConcatFirst(f, k - 1) \o f[k]

\* Every concatenation of at most n strings of the set items.
Inputs(items, n) ==
  UNION { { ConcatFirst(f, k) : f \in [1..k -> items] } : k \in 0..n }

\* Fragments of markup: <p>  </p>  <b>  </b>  <br>  <s>  </s>  <script>  </script>  x  )  <!--  -->  <  <svg/o=x>  <![CDATA[  ]]>  <!--c-->
Items ==
  { <<"<","p",">">>,
    <<"<","/","p",">">>,
    <<"<","b",">">>,
    <<"<","/","b",">">>,
    <<"<","b","r",">">>,
    <<"<","s",">">>,
    <<"<","/","s",">">>,
    <<"<","s","c","r","i","p","t",">">>,
    <<"<","/","s","c","r","i","p","t",">">>,
    <<"x">>,
    <<")">>,
    <<"<","!","-","-">>,
    <<"-","-",">">>,
    <<"<">>,
    <<"<","s","v","g","/","o","=","x",">">>,
    <<"<","!","[","C","D","A","T","A","[">>,
    <<"]","]",">">>,
    <<"<","!","-","-","c","-","-",">">> }

\* Values of an href attribute.
HrefValues ==
  { <<"h","t","t","p",":","/","/","x">>,
    <<"h","t","t","p","s",":","/","/","x">>,
    <<"h","t","t","p",":","x">>,
    <<"h","t","t","p","s",":","x">>,
    <<" "," ","H","T","T","P",":","/","/","E","x"," "," ">>,
    <<"j","a","v","a","s","c","r","i","p","t",":","x">>,
    <<"d","a","t","a",":","x">>,
    <<"f","t","p",":","/","/","x">>,
    <<"/","x">>,
    <<"&","#","1","0","6",";","a","v","a","s","c","r","i","p","t",":","x">>,
    <<"h","t","t","p",":","/","/","x","\""," ","o","n","=","\"","y">>,
    <<"h","t","t","p",":","/","/","<","s","c","r","i","p","t">>,
    <<"h","t","t","p",":","/","/","<","!","-","-">>,
    <<>> }

\* The ways the model writes a value: unquoted, double-quoted, single-quoted.
Quotes == { <<>>, <<"\"">>, <<"'">> }

\* One attribute as written in a tag, after a space.
Attr(name, quote, value) == <<" ">> \o name \o <<"=">> \o quote \o value \o quote

\* Every href attribute, with the name in either letter case.
HrefAttrs ==
  { Attr(name, quote, value) :
      name \in { <<"h","r","e","f">>, <<"H","R","E","F">> },
      quote \in Quotes, value \in HrefValues }

\* Attributes that accompany the varied one.
OtherAttrs ==
  { <<" ","o","n","=","\"","y","\"">>,
    <<" ","h","r","e","f","=","\"","h","t","t","p",":","/","/","x","\"">>,
    <<" ","H","R","E","F","=","'","j","a","v","a","s","c","r","i","p","t",":","x","'">>,
    <<" ","h","r","e","f","=","/","x">>,
    <<" ","h","r","e","f">>,
    <<" ","t","i","t","l","e","=","t">> }

\* Every concatenation of exactly n strings of the set items.
Exactly(items, n) == { ConcatFirst(f, n) : f \in [1..n -> items] }

\* Attribute strings of at most MaxAttrs attributes: one attribute of
\* HrefAttrs or OtherAttrs, with attributes of OtherAttrs before and after it.
AttrStrings ==
  UNION { { before \o attr \o after :
              attr \in HrefAttrs \cup OtherAttrs,
              before \in Exactly(OtherAttrs, n[1]),
              after \in Exactly(OtherAttrs, n[2]) } :
          n \in { m \in (0..MaxAttrs) \X (0..MaxAttrs) : m[1] + m[2] < MaxAttrs } }

\* What stands before and after the anchor tag.
AnchorContexts ==
  { << <<>>, <<>> >>,
    << <<"<","!","-","-","c","-","-",">">>, <<"t","<","/","a",">">> >>,
    << <<"<","p",">">>, <<"t",")">> >> }

AnchorInputs ==
  { ctx[1] \o <<"<","a">> \o attrs \o <<">">> \o ctx[2] :
      ctx \in AnchorContexts, attrs \in AttrStrings }

\* Fragments for the runs that vary the settings.
PolicyItems ==
  { <<"<","!","-","-","c","-","-",">">>,
    <<"<","p",">">>,
    <<"<","/","p",">">>,
    <<"<","b",">">>,
    <<"<","/","b",">">>,
    <<"<","i","m","g",">">>,
    <<"<","s","c","r","i","p","t",">">>,
    <<"<","/","s","c","r","i","p","t",">">>,
    <<"x">>,
    <<"<","b","r",">">>,
    <<"<","/","b","r",">">>,
    <<"<","a",">">> }

WithAllowed(tag) ==
  [default_sanitize_html_settings EXCEPT !.m_allowed_tags = @ \cup {tag}]

\* Settings values: the default, the default with img allowed, the default
\* in strict-balance mode, a small policy, and one that allows script.
PolicySet ==
  { default_sanitize_html_settings,
    WithAllowed(<<"i","m","g">>),
    [default_sanitize_html_settings EXCEPT !.m_preserve_structure = FALSE],
    [ m_allowed_tags |-> { <<"p">>, <<"a">>, <<"b","r">> },
      m_block_level_tags |-> { <<"p">>, <<"b","r">> },
      m_inline_tags |-> { <<"a">> },
      m_preserve_structure |-> TRUE ],
    WithAllowed(<<"s","c","r","i","p","t">>) }

\* sanitize_html(input) with the default settings.
Init == \E in \in Inputs(Items, MaxItems) : Call(in, default_sanitize_html_settings)

\* sanitize_html on one anchor tag in a context.
InitAnchor == \E in \in AnchorInputs : Call(in, default_sanitize_html_settings)

\* sanitize_html(input, settings) over the settings values.
InitPolicy ==
  \E in \in Inputs(PolicyItems, MaxItems), st \in PolicySet : Call(in, st)

Spec == Init /\ [][Next]_vars

SpecAnchor == InitAnchor /\ [][Next]_vars

SpecPolicy == InitPolicy /\ [][Next]_vars

\* Fragments around tag names: self-closed and upper-case tags, empty
\* names, /name=value fragments, prefixes of "script", and a tag written
\* on two lines.
TagItems ==
  { <<"<","b","r","/",">">>,
    <<"<","p","/",">">>,
    <<"<","P",">">>,
    <<"<","/","p",">">>,
    <<"x">>,
    <<"<",">">>,
    <<"<"," ",">">>,
    <<"<","!","-","-","c","-","-",">">>,
    <<"<","s","v","g"," ","/","o","=","x",">">>,
    <<"<","s","v","g","/","o","=","\"","X","\"",">">>,
    <<"<","s",">">>,
    <<"<","/","s",">">>,
    <<"c","r","i","p","t">>,
    <<"<","s",">","x","<","s",">">>,
    <<"<","a","\n","h","r","e","f","=","\"","h","t","t","p",":","/","/","x","\"",">">> }

\* sanitize_html(input) with the default settings on these fragments.
InitTags == \E in \in Inputs(TagItems, MaxItems) : Call(in, default_sanitize_html_settings)

SpecTags == InitTags /\ [][Next]_vars

\* The number of fragments of the inputs of the calls followed to their end.
MaxLiveItems == 2

\* Fragments: <s>  </s>  <xml>  x  <  <!--  <a =x>
LiveItems ==
  { <<"<","s",">">>,
    <<"<","/","s",">">>,
    <<"<","x","m","l",">">>,
    <<"x">>,
    <<"<">>,
    <<"<","!","-","-">>,
    <<"<","a"," ","=","x",">">> }

InitFair ==
  \E in \in Inputs(LiveItems, MaxLiveItems) : Call(in, default_sanitize_html_settings)

\* A call runs on one thread that executes statement after statement: a
\* step that can be taken is taken.
SpecFair == InitFair /\ [][Next]_vars /\ WF_vars(Next)

----------------------------------------------------------------------------
(* Calls of sanitize_html that run side by side on one settings value.     *)

\* The number of concurrent calls.
MaxCalls == 2

Calls == 1..MaxCalls

\* Mutant of Frame: the locals have static storage, one frame serves every
\* call.
FrameShared(c) == 1

\* The frame that holds the locals of call c: `tokens`, `output`,
\* `open_tags` and `i` of sanitize_html and `tokens`, `pos` of tokenize_html
\* are automatic variables, so every call has a frame of its own.
Frame(c) == c

Local(c) == frame[Frame(c)]

\* The locals as their declarations leave them.
NewFrame == [pos |-> 1, tokens |-> <<>>, i |-> 1, output |-> <<>>, open_tags |-> <<>>]

\* The variables of the call that is followed alone, and the shared settings.
single == <<input, settings, pc, pos, tokens, i, output, open_tags, result, emitted>>

\* Everything but the calls that run side by side.
besidePair == <<single, busVars, resultVars, handleVars, lockVars>>

\* tokenize_html in call c: one iteration of `while (pos < input.size())`.
PairTokenizeStep(c) ==
  /\ call[c].pc = "tokenize"
  /\ Local(c).pos <= Len(call[c].input)
  /\ LET it == TokenizeIteration(call[c].input, Local(c).pos)
     IN  /\ frame' = [frame EXCEPT ![Frame(c)].tokens = @ \o it.toks,
                                   ![Frame(c)].pos = it.next]
         /\ call' = [call EXCEPT ![c].pc = IF it.stop THEN "sanitize" ELSE "tokenize"]
  /\ UNCHANGED besidePair

\* tokenize_html in call c: the loop condition fails.
PairTokenizeReturn(c) ==
  /\ call[c].pc = "tokenize"
  /\ Local(c).pos > Len(call[c].input)
  /\ call' = [call EXCEPT ![c].pc = "sanitize"]
  /\ UNCHANGED <<frame, besidePair>>

\* One iteration of the for loop of sanitize_html in call c.
PairToken(c) ==
  /\ call[c].pc = "sanitize"
  /\ Local(c).i <= Len(Local(c).tokens)
  /\ LET step == TokenStep(Local(c).tokens, Local(c).i, Local(c).open_tags, settings)
     IN  frame' = [frame EXCEPT ![Frame(c)].output = @ \o PiecesText(step.pieces),
                                ![Frame(c)].open_tags = step.open_tags,
                                ![Frame(c)].i = step.next]
  /\ UNCHANGED <<call, besidePair>>

\* The for loop of call c ends.
PairLoopExit(c) ==
  /\ call[c].pc = "sanitize"
  /\ Local(c).i > Len(Local(c).tokens)
  /\ call' = [call EXCEPT ![c].pc = "drain"]
  /\ UNCHANGED <<frame, besidePair>>

\* One iteration of `while (!open_tags.empty())` in call c.
PairDrainStep(c) ==
  /\ call[c].pc = "drain"
  /\ Local(c).open_tags # <<>>
  /\ LET stack == Local(c).open_tags
     IN  frame' = [frame EXCEPT ![Frame(c)].output = @ \o EndTagText(stack[Len(stack)]),
                                ![Frame(c)].open_tags = SubSeq(stack, 1, Len(stack) - 1)]
  /\ UNCHANGED <<call, besidePair>>

\* Call c returns aww::result<std::string>::ok(output).
PairReturn(c) ==
  /\ call[c].pc = "drain"
  /\ Local(c).open_tags = <<>>
  /\ call' = [call EXCEPT ![c].pc = "done",
                          ![c].result = [kind |-> "ok", value |-> Local(c).output]]
  /\ UNCHANGED <<frame, besidePair>>

NextPair ==
  \E c \in Calls :
    \/ PairTokenizeStep(c)
    \/ PairTokenizeReturn(c)
    \/ PairToken(c)
    \/ PairLoopExit(c)
    \/ PairDrainStep(c)
    \/ PairReturn(c)

\* Inputs of the concurrent calls:
\* <p><b>x   <s>x</s>y<   <script>x</script>y<b>z)   a<!--c--><br></p>
PairInputs ==
  { <<"<","p",">","<","b",">","x">>,
    <<"<","s",">","x","<","/","s",">","y","<">>,
    <<"<","s","c","r","i","p","t",">","x","<","/","s","c","r","i","p","t",">",
      "y","<","b",">","z",")">>,
    <<"a","<","!","-","-","c","-","-",">","<","b","r",">","<","/","p",">">> }

\* No call is followed alone; st is the settings value.
SingleAtRest(st) ==
  /\ input = <<>>
  /\ settings = st
  /\ pc = "idle"
  /\ pos = 1
  /\ tokens = <<>>
  /\ i = 1
  /\ output = <<>>
  /\ open_tags = <<>>
  /\ result = [kind |-> "none", value |-> <<>>]
  /\ emitted = <<>>

\* Every call has been entered with its own input and the shared settings.
InitPair ==
  /\ \E st \in PolicySet : SingleAtRest(st)
  /\ call \in [Calls -> { [input |-> in, pc |-> "tokenize",
                           result |-> [kind |-> "none", value |-> <<>>]] :
                          in \in PairInputs }]
  /\ frame = [c \in Calls |-> NewFrame]
  /\ BusAtRest
  /\ ResultAtRest
  /\ HandleAtRest
  /\ LocksAtRest

SpecPair == InitPair /\ [][NextPair]_vars

----------------------------------------------------------------------------
(* aww::pubsub_event_bus (include/aww-pubsub/aww-pubsub.hpp): one bus,     *)
(* threads that subscribe, publish and reset their subscriptions.          *)
(*                                                                         *)
(* A callback is named by the index of its subscription in `handles`.  A   *)
(* critical section that cannot block is one step; the map mutex, which    *)
(* subscribe holds across the call into the topic, is a variable.          *)

\* The number of subscribe, publish and reset calls made by the threads.
MaxOps == 3

Threads == {1, 2}

EventTypes == {"A", "B"}

\* pubsub_topic<T> as constructed: m_last_id{0}, no subscribers.
NewTopic == [m_last_id |-> 0, m_subscribers |-> <<>>]

\* ++ of an `unsigned int` (32 bits), which wraps from 2^32 - 1 to 0.  The
\* value is kept as its bit pattern read as a signed number, the range the
\* model checker's integers have: 2^31 .. 2^32 - 1 are -2^31 .. -1.
UintIncrement(x) == IF x = 2147483647 THEN (-2147483647) - 1 ELSE x + 1

\* pubsub_topic::subscribe: ++m_last_id, emplace_back(id, callback).
TopicSubscribe(topic, cb) ==
  [ m_last_id |-> UintIncrement(topic.m_last_id),
    m_subscribers |-> Append(topic.m_subscribers,
                             [id |-> UintIncrement(topic.m_last_id), cb |-> cb]) ]

\* m_topics.find(type), and emplace of a new topic when it is not found.
FindOrCreate(topics, type) ==
  IF type \in DOMAIN topics THEN topics
  ELSE [T \in (DOMAIN topics) \cup {type} |-> IF T = type THEN NewTopic ELSE topics[T]]

\* pubsub_event_bus::subscribe<type>(cb) on the map.
BusSubscribed(topics, type, cb) ==
  LET found == FindOrCreate(topics, type)
  IN  [found EXCEPT ![type] = TopicSubscribe(found[type], cb)]

\* Mutant of Unsubscribed: the subscriber list is left as it is.
UnsubscribedNone(subscribers, id) == subscribers

\* pubsub_topic::unsubscribe: remove_if / erase of the entries with this id.
Unsubscribed(subscribers, id) ==
  SelectSeq(subscribers, LAMBDA item : item.id # id)

\* The callbacks of a subscriber list, in order.
RECURSIVE Callbacks(_)
Callbacks(subscribers) ==
  IF subscribers = <<>> THEN <<>>
  ELSE <<Head(subscribers).cb>> \o Callbacks(Tail(subscribers))

\* Mutant of Snapshot: the callbacks of every topic are copied.
RECURSIVE AllCallbacks(_, _)
AllCallbacks(topics, types) ==
  IF types = {} THEN <<>>
  ELSE LET T == CHOOSE T \in types : TRUE
       IN  Callbacks(topics[T].m_subscribers) \o AllCallbacks(topics, types \ {T})

SnapshotAllTopics(topics, type) == AllCallbacks(topics, DOMAIN topics)

\* pubsub_topic::publish, under the topic mutex: the vector `callbacks`.
Snapshot(topics, type) == Callbacks(topics[type].m_subscribers)

\* Mutant of TopicsAfterLookup: the lookup is operator[], which inserts.
TopicsAfterIndexing(topics, type) == FindOrCreate(topics, type)

\* The map after the lookup of pubsub_event_bus::publish: find inserts nothing.
TopicsAfterLookup(topics, type) == topics

\* A thread between two calls; ops counts the calls it has made.
IdleThread(ops) ==
  [ pc |-> "idle", type |-> "", cb |-> 0, callbacks |-> <<>>, k |-> 0,
    registered |-> <<>>, live |-> {}, dead |-> {}, delivered |-> <<>>, ops |-> ops ]

RECURSIVE SumOps(_)
SumOps(ts) ==
  IF ts = {} THEN 0
  ELSE LET t == CHOOSE t \in ts : TRUE IN thread[t].ops + SumOps(ts \ {t})

\* Thread t is between two calls and may make another one.
MayCall(t) == thread[t].pc = "idle" /\ SumOps(Threads) < MaxOps

\* The subscriptions whose reset() has returned.
ResetReturned == {cb \in 1..Len(handles) : handles[cb].state = "empty"}

\* The subscriptions of a type whose subscribe has returned and whose reset
\* has not been called.
LiveSubscriptions(type) ==
  { cb \in 1..Len(handles) :
      /\ handles[cb].type = type
      /\ handles[cb].state = "active"
      /\ ~\E t \in Threads : thread[t].pc = "reset_unsubscribed" /\ thread[t].cb = cb }

\* Everything but the bus.
besideBus == <<input, settings, pc, pos, tokens, i, output, open_tags, result, emitted,
               pairVars, resultVars, handleVars, lockVars>>

\* pubsub_event_bus::subscribe: lock m_map_mutex, find or create the topic.
SubscribeLock(t, type) ==
  /\ MayCall(t)
  /\ m_map_mutex = 0
  /\ m_map_mutex' = t
  /\ m_topics' = FindOrCreate(m_topics, type)
  /\ handles' = Append(handles, [owner |-> t, type |-> type, id |-> 0, state |-> "pending"])
  /\ received' = Append(received, 0)
  /\ thread' = [thread EXCEPT ![t] = [IdleThread(@.ops + 1) EXCEPT
                                        !.pc = "subscribe_locked",
                                        !.type = type,
                                        !.cb = Len(handles) + 1]]
  /\ UNCHANGED <<published, besideBus>>

\* pubsub_topic::subscribe under the topic mutex, the map mutex still held.
SubscribeAdd(t) ==
  /\ thread[t].pc = "subscribe_locked"
  /\ LET type == thread[t].type
         cb   == thread[t].cb
     IN  /\ m_topics' = [m_topics EXCEPT ![type] = TopicSubscribe(@, cb)]
         /\ handles' = [handles EXCEPT ![cb].id = UintIncrement(m_topics[type].m_last_id)]
  /\ thread' = [thread EXCEPT ![t].pc = "subscribe_added"]
  /\ UNCHANGED <<m_map_mutex, received, published, besideBus>>

\* subscribe returns the pubsub_subscription; the map mutex is released.
SubscribeReturn(t) ==
  /\ thread[t].pc = "subscribe_added"
  /\ m_map_mutex' = 0
  /\ handles' = [handles EXCEPT ![thread[t].cb].state = "active"]
  /\ thread' = [thread EXCEPT ![t] = IdleThread(@.ops)]
  /\ UNCHANGED <<m_topics, received, published, besideBus>>

\* pubsub_event_bus::publish: the lookup under m_map_mutex finds no topic
\* and publish returns.
PublishNoTopic(t, type) ==
  /\ MayCall(t)
  /\ m_map_mutex = 0
  /\ type \notin DOMAIN m_topics
  /\ m_topics' = TopicsAfterLookup(m_topics, type)
  /\ published' = [published EXCEPT ![type] = @ + 1]
  /\ thread' = [thread EXCEPT ![t] = IdleThread(@.ops + 1)]
  /\ UNCHANGED <<m_map_mutex, handles, received, besideBus>>

\* pubsub_event_bus::publish: the lookup under m_map_mutex finds the topic.
PublishFind(t, type) ==
  /\ MayCall(t)
  /\ m_map_mutex = 0
  /\ type \in DOMAIN m_topics
  /\ m_topics' = TopicsAfterLookup(m_topics, type)
  /\ published' = [published EXCEPT ![type] = @ + 1]
  /\ thread' = [thread EXCEPT ![t] = [IdleThread(@.ops + 1) EXCEPT
                                        !.pc = "publish_found",
                                        !.type = type,
                                        !.dead = ResetReturned]]
  /\ UNCHANGED <<m_map_mutex, handles, received, besideBus>>

\* pubsub_topic::publish: the copy of the callbacks under the topic mutex.
PublishSnapshot(t) ==
  /\ thread[t].pc = "publish_found"
  /\ thread' = [thread EXCEPT ![t].pc = "publish_invoke",
                              ![t].callbacks = Snapshot(m_topics, thread[t].type),
                              ![t].k = 1,
                              ![t].registered = Callbacks(m_topics[thread[t].type].m_subscribers),
                              ![t].live = LiveSubscriptions(thread[t].type)]
  /\ UNCHANGED <<m_topics, m_map_mutex, handles, received, published, besideBus>>

\* `for (const auto& fn : callbacks) fn(event)`: one call of a callback.
PublishInvoke(t) ==
  /\ thread[t].pc = "publish_invoke"
  /\ thread[t].k <= Len(thread[t].callbacks)
  /\ LET cb == thread[t].callbacks[thread[t].k]
     IN  /\ received' = [received EXCEPT ![cb] = @ + 1]
         /\ thread' = [thread EXCEPT ![t].k = @ + 1,
                                     ![t].delivered = Append(@, cb)]
  /\ UNCHANGED <<m_topics, m_map_mutex, handles, published, besideBus>>

\* publish returns after the last callback.
PublishReturn(t) ==
  /\ thread[t].pc = "publish_invoke"
  /\ thread[t].k > Len(thread[t].callbacks)
  /\ thread' = [thread EXCEPT ![t] = IdleThread(@.ops)]
  /\ UNCHANGED <<m_topics, m_map_mutex, handles, received, published, besideBus>>

\* pubsub_subscription::reset (also run by the destructor) on a handle that
\* holds its unsubscribe function: pubsub_topic::unsubscribe under the
\* topic mutex.
ResetUnsubscribe(t, cb) ==
  /\ MayCall(t)
  /\ handles[cb].owner = t
  /\ handles[cb].state = "active"
  /\ m_topics' = [m_topics EXCEPT ![handles[cb].type].m_subscribers =
                                     Unsubscribed(@, handles[cb].id)]
  /\ thread' = [thread EXCEPT ![t] = [IdleThread(@.ops + 1) EXCEPT
                                        !.pc = "reset_unsubscribed",
                                        !.type = handles[cb].type,
                                        !.cb = cb]]
  /\ UNCHANGED <<m_map_mutex, handles, received, published, besideBus>>

\* reset: m_unsubscribe = {} and return.
ResetReturn(t) ==
  /\ thread[t].pc = "reset_unsubscribed"
  /\ handles' = [handles EXCEPT ![thread[t].cb].state = "empty"]
  /\ thread' = [thread EXCEPT ![t] = IdleThread(@.ops)]
  /\ UNCHANGED <<m_topics, m_map_mutex, received, published, besideBus>>

\* reset on a handle whose m_unsubscribe is empty does nothing.
ResetInert(t, cb) ==
  /\ MayCall(t)
  /\ handles[cb].owner = t
  /\ handles[cb].state = "empty"
  /\ thread' = [thread EXCEPT ![t] = IdleThread(@.ops + 1)]
  /\ UNCHANGED <<m_topics, m_map_mutex, handles, received, published, besideBus>>

NextBus ==
  \E t \in Threads :
    \/ \E type \in EventTypes : SubscribeLock(t, type)
    \/ SubscribeAdd(t)
    \/ SubscribeReturn(t)
    \/ \E type \in EventTypes : PublishNoTopic(t, type)
    \/ \E type \in EventTypes : PublishFind(t, type)
    \/ PublishSnapshot(t)
    \/ PublishInvoke(t)
    \/ PublishReturn(t)
    \/ \E cb \in 1..Len(handles) : ResetUnsubscribe(t, cb)
    \/ ResetReturn(t)
    \/ \E cb \in 1..Len(handles) : ResetInert(t, cb)

\* The event types subscribed to, in order, before the threads start.
InitialSubscribers == { <<>>, <<"A">>, <<"A", "A">>, <<"A", "B">> }

\* The map after subscribe<types[1]>, ..., subscribe<types[k]>.
RECURSIVE InitialTopics(_, _)
InitialTopics(types, k) ==
  IF k = 0 THEN [T \in {} |-> NewTopic]
  ELSE BusSubscribed(InitialTopics(types, k - 1), types[k], k)

\* The handle returned by the k-th of these calls, handed to thread 1.
InitialHandle(types, k) ==
  [ owner |-> 1, type |-> types[k],
    id |-> InitialTopics(types, k)[types[k]].m_last_id, state |-> "active" ]

RECURSIVE InitialHandles(_, _)
InitialHandles(types, k) ==
  IF k = 0 THEN <<>>
  ELSE Append(InitialHandles(types, k - 1), InitialHandle(types, k))

RECURSIVE Zeros(_)
Zeros(n) == IF n = 0 THEN <<>> ELSE Append(Zeros(n - 1), 0)

\* A bus with the subscriptions of the main thread; the threads start.
InitBus ==
  /\ SingleAtRest(default_sanitize_html_settings)
  /\ PairAtRest
  /\ ResultAtRest
  /\ HandleAtRest
  /\ LocksAtRest
  /\ \E types \in InitialSubscribers :
       /\ m_topics = InitialTopics(types, Len(types))
       /\ handles = InitialHandles(types, Len(types))
       /\ received = Zeros(Len(types))
  /\ m_map_mutex = 0
  /\ thread = [t \in Threads |-> IdleThread(0)]
  /\ published = [T \in EventTypes |-> 0]

SpecBus == InitBus /\ [][NextBus]_vars

\* A topic whose counter has reached 2^32 - 1: the first subscriber, id 1,
\* is still registered, the 2^32 - 2 subscriptions made after it were reset.
WornTopic == [m_last_id |-> -1, m_subscribers |-> <<[id |-> 1, cb |-> 1]>>]

\* A bus with that topic, the handle of its subscriber kept by thread 1.
InitWorn ==
  /\ SingleAtRest(default_sanitize_html_settings)
  /\ PairAtRest
  /\ ResultAtRest
  /\ HandleAtRest
  /\ LocksAtRest
  /\ m_topics = [T \in {"A"} |-> WornTopic]
  /\ handles = <<[owner |-> 1, type |-> "A", id |-> 1, state |-> "active"]>>
  /\ received = <<0>>
  /\ m_map_mutex = 0
  /\ thread = [t \in Threads |-> IdleThread(0)]
  /\ published = [T \in EventTypes |-> 0]

SpecWorn == InitWorn /\ [][NextBus]_vars

----------------------------------------------------------------------------
(* aww::result<T> (include/aww-result/aww-result.hpp): one object, built   *)
(* by one of the factories, and the member calls made on it.               *)

\* The number of member calls made on the object.
MaxAccesses == 2

\* The values of T and the messages used.
Values == {0, 42}
Messages == {"Not Found", "Operation Failed"}

\* result_error(std::string error_message)
result_error_of(message) == [m_message |-> message]

\* result_error::error_message()
error_message(e) == e.m_message

\* A std::exception, by its what().
Exceptions == {[what |-> m] : m \in Messages}

\* result::ok: m_result holds the alternative T.
ok(v) == [alt |-> "T", held |-> v]

\* result::err(result_error): m_result holds the alternative result_error.
err(e) == [alt |-> "result_error", held |-> e]

\* result::err(std::string)
err_string(message) == err(result_error_of(message))

\* result::err(const std::exception&)
err_exception(ex) == err(result_error_of(ex.what))

\* std::holds_alternative<T>(m_result)
is_ok(r) == r.alt = "T"

is_err(r) == ~is_ok(r)

operator_bool(r) == is_ok(r)

\* The two ways a member call ends.
Returned(x) == [kind |-> "returned", what |-> x]
Thrown(type, message) == [kind |-> "thrown", type |-> type, what |-> message]

\* Mutant of value_of: the held object is returned without the check.
value_unchecked(r) == Returned(r.held)

\* result::value()
value_of(r) ==
  IF is_ok(r)
    THEN Returned(r.held)
    ELSE Thrown("std::runtime_error", "Attempted to get value from an error result")

\* result::error()
error_of(r) ==
  IF is_err(r)
    THEN Returned(r.held)
    ELSE Thrown("std::runtime_error", "Attempted to get error from a success result")

\* Everything but the result object.
besideResult == <<input, settings, pc, pos, tokens, i, output, open_tags, result, emitted,
                  pairVars, busVars, handleVars, lockVars>>

Unbuilt == m_result = [alt |-> "none"]

BuildOk(v) ==
  /\ Unbuilt
  /\ m_result' = ok(v)
  /\ built' = [by |-> "ok", arg |-> v]
  /\ UNCHANGED <<accesses, besideResult>>

BuildErr(e) ==
  /\ Unbuilt
  /\ m_result' = err(e)
  /\ built' = [by |-> "err", arg |-> e]
  /\ UNCHANGED <<accesses, besideResult>>

BuildErrString(message) ==
  /\ Unbuilt
  /\ m_result' = err_string(message)
  /\ built' = [by |-> "err_string", arg |-> message]
  /\ UNCHANGED <<accesses, besideResult>>

BuildErrException(ex) ==
  /\ Unbuilt
  /\ m_result' = err_exception(ex)
  /\ built' = [by |-> "err_exception", arg |-> ex]
  /\ UNCHANGED <<accesses, besideResult>>

\* A member call on the built object; its outcome is recorded.
Access(member, outcome) ==
  /\ ~Unbuilt
  /\ Len(accesses) < MaxAccesses
  /\ accesses' = Append(accesses, [member |-> member, outcome |-> outcome])
  /\ UNCHANGED <<m_result, built, besideResult>>

CallIsOk == Access("is_ok", Returned(is_ok(m_result)))

CallIsErr == Access("is_err", Returned(is_err(m_result)))

CallBool == Access("operator bool", Returned(operator_bool(m_result)))

CallValue == Access("value", value_of(m_result))

CallError == Access("error", error_of(m_result))

NextResult ==
  \/ \E v \in Values : BuildOk(v)
  \/ \E m \in Messages : BuildErr(result_error_of(m))
  \/ \E m \in Messages : BuildErrString(m)
  \/ \E ex \in Exceptions : BuildErrException(ex)
  \/ CallIsOk
  \/ CallIsErr
  \/ CallBool
  \/ CallValue
  \/ CallError

InitResult ==
  /\ SingleAtRest(default_sanitize_html_settings)
  /\ PairAtRest
  /\ BusAtRest
  /\ ResultAtRest
  /\ HandleAtRest
  /\ LocksAtRest

SpecResult == InitResult /\ [][NextResult]_vars

----------------------------------------------------------------------------
(* Reading the emitted pieces and the output as markup.                    *)

HrefOpen == <<"<","a"," ","h","r","e","f","=","\"">>

\* The piece is an anchor start tag written with an href.
IsHrefTag(piece) == piece.kind = "start" /\ StartsWith(piece.str, HrefOpen)

\* What stands between `<a href="` and the closing `">` of the piece.
HrefValue(piece) == SubSeq(piece.str, Len(HrefOpen) + 1, Len(piece.str) - 2)

\* s without its leading whitespace.
RECURSIVE LeftTrim(_)
LeftTrim(s) == IF s # <<>> /\ IsSpace(Head(s)) THEN LeftTrim(Tail(s)) ELSE s

\* s without its trailing whitespace.
RECURSIVE RightTrim(_)
RightTrim(s) ==
  IF s # <<>> /\ IsSpace(s[Len(s)]) THEN RightTrim(SubSeq(s, 1, Len(s) - 1)) ELSE s

HttpPrefixes == { <<"h","t","t","p",":","/","/">>, <<"h","t","t","p","s",":","/","/">> }

\* Left-trimmed and lower-cased, the value begins with http:// or https://.
HasHttpPrefix(value) ==
  \E prefix \in HttpPrefixes : StartsWith(to_lower_case(LeftTrim(value)), prefix)

\* The name written in a start tag piece: from after '<' to a space or '>'.
WrittenName(piece) ==
  LET stops == {k \in 2..Len(piece.str) : piece.str[k] \in {" ", ">"}}
  IN  SubSeq(piece.str, 2, (CHOOSE k \in stops : \A m \in stops : k <= m) - 1)

\* The start tag pieces emitted so far.
StartPieces == SelectSeq(emitted, LAMBDA piece : piece.kind = "start")

\* The anchor start tag tokens of the input.
AnchorTokens ==
  {k \in 1..Len(tokens) : tokens[k].m_type = "start_tag" /\ tokens[k].m_tag_name = <<"a">>}

----------------------------------------------------------------------------
(* C1 - Href safety.                                                       *)

\* C1: every anchor start tag emitted with an href carries a value that,
\* left-trimmed and lower-cased, begins with http:// or https://.
C1_HrefSafety ==
  \A k \in 1..Len(emitted) :
    IsHrefTag(emitted[k]) => HasHttpPrefix(HrefValue(emitted[k]))

----------------------------------------------------------------------------
(* C2 - Attribute stripping.                                               *)

\* The piece is exactly `<name>`: nothing but a name between '<' and '>'.
IsBareTag(piece) ==
  \A k \in 2..(Len(piece.str) - 1) : ~IsSpace(piece.str[k]) /\ piece.str[k] \notin {"=", "\"", "'"}

\* The piece is exactly `<a href="V">`: the value of the one attribute runs
\* to the closing quote, so V holds no double quote.
IsSingleHrefTag(piece) == IsHrefTag(piece) /\ FindChar(HrefValue(piece), "\"", 1) = 0

\* C2: every emitted start tag is exactly `<name>` or exactly `<a href="V">`;
\* no other attribute appears inside an emitted tag.
C2_OnlyHrefAttribute ==
  \A k \in 1..Len(emitted) :
    emitted[k].kind = "start" => IsBareTag(emitted[k]) \/ IsSingleHrefTag(emitted[k])

----------------------------------------------------------------------------
(* C3 - Dangerous-tag non-leakage.                                         *)

DangerousOpeners == { <<"<">> \o name : name \in k_dangerous_tags }

\* C3: the output never contains, case-insensitively, `<script`, `<iframe`,
\* `<object`, `<embed`, `<base`, `<style` or `<xml`.
C3_NoDangerousOpener ==
  \A opener \in DangerousOpeners : ~Contains(to_lower_case(output), opener)

----------------------------------------------------------------------------
(* C6 - Comment elimination.                                               *)

\* C6: the output never contains `<!--` nor `-->`.
C6_NoCommentMarker ==
  ~Contains(output, k_comment_start) /\ ~Contains(output, k_comment_end)

----------------------------------------------------------------------------
(* C4 - Closure.                                                           *)

\* C4: under settings whose allowed set is disjoint from the dangerous set,
\* the name of every start tag written to the output is a member of
\* settings.m_allowed_tags.
C4_Closure ==
  settings.m_allowed_tags \cap k_dangerous_tags = {} =>
    \A k \in 1..Len(emitted) :
      emitted[k].kind = "start" => WrittenName(emitted[k]) \in settings.m_allowed_tags

\* A finished call, under a policy other than the default, whose input held
\* a start tag that is neither allowed nor dangerous next to emitted tags.
C4_Witness ==
  /\ pc = "done"
  /\ settings # default_sanitize_html_settings
  /\ settings.m_allowed_tags \cap k_dangerous_tags = {}
  /\ \E k \in 1..Len(tokens) :
       /\ tokens[k].m_type = "start_tag"
       /\ tokens[k].m_tag_name \notin settings.m_allowed_tags \cup k_dangerous_tags
  /\ Len(StartPieces) >= 2

----------------------------------------------------------------------------
(* C5 - Balance.                                                           *)

\* The name written in an end tag piece `</name>`.
ClosedName(piece) == SubSeq(piece.str, 3, Len(piece.str) - 1)

\* Reads the emitted tags in order against a stack of its own: ok is FALSE
\* as soon as an end tag does not close the most recently opened element.
RECURSIVE Replay(_, _)
Replay(pieces, stack) ==
  IF pieces = <<>> THEN [ok |-> TRUE, stack |-> stack]
  ELSE LET piece == Head(pieces)
       IN  CASE piece.kind = "text" -> Replay(Tail(pieces), stack)
             [] piece.kind = "start" ->
                  IF WrittenName(piece) \in k_void_elements
                  THEN Replay(Tail(pieces), stack)
                  ELSE Replay(Tail(pieces), Append(stack, WrittenName(piece)))
             [] piece.kind = "end" ->
                  IF stack # <<>> /\ stack[Len(stack)] = ClosedName(piece)
                  THEN Replay(Tail(pieces), SubSeq(stack, 1, Len(stack) - 1))
                  ELSE [ok |-> FALSE, stack |-> stack]

\* C5: the emitted start and end tags are properly nested: no end tag is
\* emitted that does not close the most recently emitted still-open start
\* tag, and on return every non-void start tag has been closed.
C5_Balance ==
  LET r == Replay(emitted, <<>>)
  IN  r.ok /\ (pc = "done" => r.stack = <<>>)

\* A finished call that left two elements open for the final drain and that
\* discarded an end tag of the input.
C5_Witness ==
  /\ pc = "done"
  /\ Len(StartPieces) >= 2
  /\ \E k \in 1..Len(tokens) : tokens[k].m_type = "end_tag"
  /\ Len(SelectSeq(emitted, LAMBDA piece : piece.kind = "end")) = 2
  /\ Len(SelectSeq(tokens, LAMBDA tok : tok.m_type = "end_tag")) = 1
  /\ ~Contains(output, EndTagText(tokens[Len(tokens)].m_tag_name))

----------------------------------------------------------------------------
(* C7 - Valid input is preserved.                                          *)

\* The tag body is `a href="V"` with V a quote-free http:// or https:// URL.
IsValidAnchorBody(body) ==
  LET open == Tail(SubSeq(HrefOpen, 1, Len(HrefOpen)))
  IN  /\ StartsWith(body, open)
      /\ Len(body) > Len(open)
      /\ body[Len(body)] = "\""
      /\ LET value == SubSeq(body, Len(open) + 1, Len(body) - 1)
         IN  /\ FindChar(value, "\"", 1) = 0
             /\ \E prefix \in HttpPrefixes : StartsWith(value, prefix)

\* s is well-formed markup over the default allowed set: lower-case tags
\* without attributes (but a double-quoted http/https href on a), properly
\* nested, br and hr unclosed, text free of & < > and the double quote.
RECURSIVE WellFormed(_, _)
WellFormed(s, stack) ==
  IF s = <<>> THEN stack = <<>>
  ELSE IF Head(s) = "<"
  THEN LET gt   == FindChar(s, ">", 1)
           body == SubSeq(s, 2, gt - 1)
           rest == SubstrFrom(s, gt + 1)
       IN  /\ gt # 0
           /\ body # <<>>
           /\ IF Head(body) = "/"
              THEN /\ stack # <<>>
                   /\ stack[Len(stack)] = Tail(body)
                   /\ WellFormed(rest, SubSeq(stack, 1, Len(stack) - 1))
              ELSE IF body \in { <<"b","r">>, <<"h","r">> }
              THEN WellFormed(rest, stack)
              ELSE IF body \in default_sanitize_html_settings.m_allowed_tags
              THEN WellFormed(rest, Append(stack, body))
              ELSE IsValidAnchorBody(body) /\ WellFormed(rest, Append(stack, <<"a">>))
  ELSE Head(s) \notin {"&", ">", "\""} /\ WellFormed(Tail(s), stack)

\* C7: with the default settings, a well-formed input over the allowed tags
\* is returned unchanged.
C7_ValidInputPreserved ==
  (pc = "done" /\ settings = default_sanitize_html_settings /\ WellFormed(input, <<>>))
    => result.value = input

----------------------------------------------------------------------------
(* C8 - sanitize_html never reports an error.                              *)

----------------------------------------------------------------------------
(* C9 - An unsafe href is never leaked.                                    *)

\* Token k is an anchor start tag without an href, or with an href whose
\* value fails is_safe_href.
UnsafeAnchorAt(k) ==
  /\ k \in AnchorTokens
  /\ LET attrs == parse_attributes(tokens[k].m_attr_str)
         href  == <<"h","r","e","f">>
     IN  href \notin DOMAIN attrs \/ ~is_safe_href(attrs[href])

BareAnchor == <<"<","a",">">>

\* The pass at an allowed anchor start tag with no safe href appends
\* exactly `<a>` and pushes a.
UnsafeAnchorStep ==
  (AtToken("start_tag") /\ UnsafeAnchorAt(i) /\ <<"a">> \in settings.m_allowed_tags)
    => /\ emitted' = Append(emitted, Piece("start", BareAnchor))
       /\ output' = output \o BareAnchor
       /\ open_tags' = Append(open_tags, <<"a">>)

\* The output of a finished call on an anchor with no safe href is the
\* output for the same context around a bare `<a>`: nothing of the
\* attribute string reaches it.
UnsafeAnchorOutput ==
  (pc = "done" /\ \E k \in AnchorTokens : UnsafeAnchorAt(k))
    => \E ctx \in AnchorContexts :
         /\ StartsWith(input, ctx[1] \o <<"<","a"," ">>)
         /\ result.value = sanitize_html(ctx[1] \o BareAnchor \o ctx[2], settings)

----------------------------------------------------------------------------
(* C10 - The emitted href value.                                           *)

\* The attribute, written with this quoting, holds the whole value: a quoted
\* value does not contain its quote, an unquoted one is non-empty, free of
\* whitespace and does not begin with a quote.
WrittenWhole(quote, value) ==
  IF quote # <<>> THEN FindChar(value, quote[1], 1) = 0
  ELSE /\ value # <<>>
       /\ Head(value) \notin {"\"", "'"}
       /\ \A k \in 1..Len(value) : ~IsSpace(value[k])

\* The pass at an anchor start tag whose only attribute is a safe href
\* appends `<a href="V">` with V the written value, whitespace-trimmed.
SafeAnchorStep ==
  \A name \in { <<"h","r","e","f">>, <<"H","R","E","F">> },
     quote \in Quotes, value \in HrefValues :
    ( /\ AtToken("start_tag")
      /\ tokens[i].m_tag_name = <<"a">>
      /\ tokens[i].m_attr_str = Attr(name, quote, value)
      /\ WrittenWhole(quote, value)
      /\ is_safe_href(value) )
    => emitted' = Append(emitted,
                         Piece("start", HrefOpen \o RightTrim(LeftTrim(value)) \o <<"\"",">">>))

\* C10: the value written between the quotes of the emitted `<a href="...">`
\* is the input attribute value with surrounding whitespace removed and its
\* letter case preserved.
C10_HrefValueTrimmedCasePreserved == [][SafeAnchorStep]_vars

\* The mixed-case, space-padded value has been emitted trimmed, upper case kept.
C10_Witness ==
  \E k \in 1..Len(emitted) :
    emitted[k] = Piece("start", HrefOpen \o <<"H","T","T","P",":","/","/","E","x">> \o <<"\"",">">>)

----------------------------------------------------------------------------
(* C11 - The remainder after an unterminated tag.                          *)

\* The tokenizer stopped at a `<` with no `>` after it: the last token is
\* the flagged text token and pos is the position of that `<`.
StoppedAtUnclosedTag == tokens # <<>> /\ tokens[Len(tokens)].m_unclosed

\* C11: when the input is cut off inside a tag, the finished call has
\* appended the remainder from that `<` with every `<` written as `&lt;` and
\* nothing else changed, and only end tags follow it.
C11_UnclosedRemainderAppended ==
  (pc = "done" /\ StoppedAtUnclosedTag)
    => \E k \in 1..Len(emitted) :
         /\ emitted[k] = Piece("text", escape_unclosed(SubstrFrom(input, pos)))
         /\ \A m \in (k + 1)..Len(emitted) : emitted[m].kind = "end"

----------------------------------------------------------------------------
(* C12 - The final drain.                                                  *)

\* The end tags of the names of a stack, innermost (last pushed) first.
RECURSIVE Closers(_)
Closers(stack) ==
  IF stack = <<>> THEN <<>>
  ELSE <<"<", "/">> \o stack[Len(stack)] \o <<">">>
         \o Closers(SubSeq(stack, 1, Len(stack) - 1))

\* A step taken after the token sequence is exhausted writes nothing but the
\* end tag of the innermost open name and pops that name: the output
\* followed by the closers still owed does not change.
DrainKeepsClosers ==
  pc = "drain" =>
    /\ output' \o Closers(open_tags') = output \o Closers(open_tags)
    /\ Len(open_tags') <= Len(open_tags)
    /\ pc' = "done" => open_tags = <<>> /\ result'.value = output

\* C12: once the tokens are exhausted the call appends exactly one end tag
\* per open name, innermost first, and returns with the stack empty.
C12_FinalDrain ==
  /\ [][DrainKeepsClosers]_vars
  /\ [](pc = "done" => open_tags = <<>>)

\* <p>, <b> and <s> are opened and never closed by the input: the returned
\* string ends with their end tags in reverse order.
C12_Witness ==
  /\ pc = "done"
  /\ FindChar(input, "/", 1) = 0
  /\ Len(emitted) >= 3
  /\ LET n == Len(emitted)
     IN  /\ emitted[n - 2] = Piece("end", <<"<","/","s",">">>)
         /\ emitted[n - 1] = Piece("end", <<"<","/","b",">">>)
         /\ emitted[n] = Piece("end", <<"<","/","p",">">>)
         /\ result.value = <<"<","p",">","<","b",">","<","s",">">> \o Closers(<<<<"p">>, <<"b">>, <<"s">>>>)

----------------------------------------------------------------------------
(* C13 - Comments are dropped without side effects.                        *)

\* A terminated comment of the input that the tokenizer reads as a comment:
\* <<p, e>> with `<!--` at p and the next `-->` at e, where the tokens of
\* the input are the tokens of the text before it, the comment token, and
\* the tokens of the text after it.
CommentCuts ==
  { cut \in (1..Len(input)) \X (1..Len(input)) :
      /\ Substr(input, cut[1], Len(k_comment_start)) = k_comment_start
      /\ cut[2] = FindStr(input, k_comment_end, cut[1] + Len(k_comment_start))
      /\ tokens = tokenize_html(SubSeq(input, 1, cut[1] - 1))
                    \o <<Token("comment",
                               SubSeq(input, cut[1] + Len(k_comment_start), cut[2] - 1),
                               <<>>, <<>>, FALSE)>>
                    \o tokenize_html(SubstrFrom(input, cut[2] + Len(k_comment_end))) }

\* The input with the comment at cut removed.
WithoutComment(cut) ==
  SubSeq(input, 1, cut[1] - 1) \o SubstrFrom(input, cut[2] + Len(k_comment_end))

\* C13: the call returns what it returns for the input without the comment.
C13_CommentFrame ==
  pc = "done" =>
    \A cut \in CommentCuts : result.value = sanitize_html(WithoutComment(cut), settings)

----------------------------------------------------------------------------
(* C14 - Void elements.                                                    *)

\* The token at i is a start tag of an allowed void element.
AtAllowedVoidTag ==
  /\ pc = "sanitize"
  /\ i <= Len(tokens)
  /\ tokens[i].m_type = "start_tag"
  /\ tokens[i].m_tag_name \in k_void_elements
  /\ tokens[i].m_tag_name \in settings.m_allowed_tags

\* The step at such a token writes `<name>` and leaves the stack as it is.
VoidTagStep ==
  AtAllowedVoidTag =>
    /\ emitted' = Append(emitted, Piece("start", <<"<">> \o tokens[i].m_tag_name \o <<">">>))
    /\ output' = output \o <<"<">> \o tokens[i].m_tag_name \o <<">">>
    /\ open_tags' = open_tags
    /\ i' = i + 1

\* No void element is on the stack, and no end tag of one was written.
NoVoidEndTag ==
  /\ \A k \in 1..Len(open_tags) : open_tags[k] \notin k_void_elements
  /\ \A k \in 1..Len(emitted) :
       emitted[k].kind = "end" => ClosedName(emitted[k]) \notin k_void_elements
  /\ \A name \in k_void_elements : ~Contains(output, <<"<", "/">> \o name \o <<">">>)

\* C14: an allowed void start tag is written as `<name>` and never pushed,
\* and no end tag of a void element is ever written.
C14_VoidElements == [][VoidTagStep]_vars /\ []NoVoidEndTag

\* An input made of <p>, <br> and </br> has returned <p><br></p>: the void
\* tag was written inside an open element, its end tag was discarded, and
\* the drain closed only <p>.
C14_Witness ==
  /\ pc = "done"
  /\ \E k \in 1..Len(tokens) :
       tokens[k].m_type = "end_tag" /\ tokens[k].m_tag_name = <<"b","r">>
  /\ emitted = << Piece("start", <<"<","p",">">>),
                  Piece("start", <<"<","b","r",">">>),
                  Piece("end", <<"<","/","p",">">>) >>

----------------------------------------------------------------------------
(* C15 - Determinism and isolation.                                        *)

\* Call c has returned what sanitize_html returns for its arguments when it
\* runs alone.
ReturnsAsAlone(c) ==
  call[c].result = [kind |-> "ok", value |-> sanitize_html(call[c].input, settings)]

----------------------------------------------------------------------------
(* C16 - Totality.                                                         *)

\* Every iteration moves on: an iteration of tokenize_html raises the cursor
\* or leaves the loop, an iteration of the pass (the skip loops of the
\* dangerous and the script-prefix branch included) raises the token index,
\* and an iteration of the drain shortens the stack.
LoopProgress ==
  /\ pc = "tokenize" => (pos' > pos /\ pos' <= Len(input) + 1) \/ pc' = "sanitize"
  /\ (pc = "sanitize" /\ pc' = "sanitize") => i' > i /\ i' <= Len(tokens) + 2
  /\ (pc = "drain" /\ pc' = "drain") => Len(open_tags') < Len(open_tags)

\* From every position of the attribute string of a start tag, an iteration
\* of parse_attributes that does not break leaves a greater position, also
\* when the name it reads is empty.
AttrProgress ==
  \A k \in 1..Len(tokens) :
    tokens[k].m_type = "start_tag" =>
      \A p \in 1..Len(tokens[k].m_attr_str) :
        SkipSpace(tokens[k].m_attr_str, p) <= Len(tokens[k].m_attr_str) =>
          /\ AttrIteration(tokens[k].m_attr_str, p).next > p
          /\ AttrIteration(tokens[k].m_attr_str, p).next <= Len(tokens[k].m_attr_str) + 1

\* C16: every loop makes progress and every call returns.
C16_Totality == [][LoopProgress]_vars /\ []AttrProgress /\ <>(pc = "done")

\* A call has returned on an input with an attribute whose name is empty
\* (the name scan stopped at once at `=`) followed by an unterminated tag.
C16_Witness ==
  /\ pc = "done"
  /\ \E k \in 1..Len(tokens) :
       /\ tokens[k].m_type = "start_tag"
       /\ tokens[k].m_attr_str # <<>>
       /\ AttrIteration(tokens[k].m_attr_str, 1).name = <<>>
       /\ AttrIteration(tokens[k].m_attr_str, 1).value = <<"x">>
  /\ tokens[Len(tokens)].m_unclosed


----------------------------------------------------------------------------
(* C17: each publish<T> calls the callback of every subscriber that is in  *)
(* the list of T when the publish copies it, exactly once each, and calls  *)
(* no subscriber of another event type; with publishers running side by    *)
(* side and no other call made, every subscriber has been called once per  *)
(* publish of its type when the publishers are done.                       *)

\* How many times x occurs in the sequence s.
RECURSIVE Count(_, _)
Count(s, x) ==
  IF s = <<>> THEN 0
  ELSE (IF Head(s) = x THEN 1 ELSE 0) + Count(Tail(s), x)

\* So far the publish has called the first k - 1 registered subscribers.
DeliversInOrder ==
  \A t \in Threads :
    thread[t].pc = "publish_invoke" =>
      /\ thread[t].k <= Len(thread[t].registered) + 1
      /\ thread[t].delivered = SubSeq(thread[t].registered, 1, thread[t].k - 1)

\* A publish returns when it has called every registered subscriber once.
PublishDelivers ==
  \A t \in Threads :
    (thread[t].pc = "publish_invoke" /\ thread'[t].pc = "idle") =>
      \A cb \in 1..Len(handles) :
        Count(thread[t].delivered, cb) =
          (IF \E n \in 1..Len(thread[t].registered) : thread[t].registered[n] = cb
           THEN 1 ELSE 0)

\* A publish<T> calls subscribers of T only.
InvokesOnlyOwnType ==
  \A t \in Threads :
    \A n \in 1..Len(thread[t].delivered) :
      handles[thread[t].delivered[n]].type = thread[t].type

\* Every call made so far by the threads was a publish.
OnlyPublishes == SumOps(Threads) = published["A"] + published["B"]

\* No call is in progress.
Quiescent == \A t \in Threads : thread[t].pc = "idle"

\* N publishes of a type with M subscribers: N calls of each subscriber.
CountsAtQuiescence ==
  (OnlyPublishes /\ Quiescent) =>
    \A cb \in 1..Len(handles) : received[cb] = published[handles[cb].type]

C17_Delivery ==
  /\ [][PublishDelivers]_vars
  /\ [](DeliversInOrder /\ InvokesOnlyOwnType /\ CountsAtQuiescence)

\* Two publishes of "A" run side by side over two subscribers: one has
\* called both, the other has called the first.
C17_Witness ==
  /\ thread[1].pc = "publish_invoke" /\ thread[2].pc = "publish_invoke"
  /\ thread[1].type = "A" /\ thread[2].type = "A"
  /\ thread[1].delivered = <<1, 2>>
  /\ thread[2].delivered = <<1>>
  /\ received = <<2, 1>>

----------------------------------------------------------------------------
(* C18: a publish that starts after reset() of a subscription has returned *)
(* does not call that subscription's callback, and it calls the callback   *)
(* of every subscription of its type that is alive when it copies the list.*)

\* No publish calls a subscription whose reset had returned when it started.
NoDeliveryToDead ==
  \A t \in Threads :
    \A n \in 1..Len(thread[t].delivered) :
      thread[t].delivered[n] \notin thread[t].dead

\* A publish returns when it has called the subscriptions that were alive.
LiveReceive ==
  \A t \in Threads :
    (thread[t].pc = "publish_invoke" /\ thread'[t].pc = "idle") =>
      \A cb \in thread[t].live : Count(thread[t].delivered, cb) = 1

C18_Unsubscription == [][LiveReceive]_vars /\ []NoDeliveryToDead

\* A publish that started after the reset of a subscription of its type has
\* called the other subscription and is about to return.
C18_Witness ==
  \E t \in Threads :
    /\ thread[t].pc = "publish_invoke"
    /\ thread[t].k > Len(thread[t].callbacks)
    /\ \E cb \in thread[t].dead : handles[cb].type = thread[t].type
    /\ thread[t].live # {}
    /\ thread[t].delivered # <<>>

----------------------------------------------------------------------------
(* C19: a publish<T> when T has no topic, or when the list of T is empty,  *)
(* returns without calling a callback; no step of a publish changes the    *)
(* topic map or a subscriber list.                                         *)

\* The step is taken by thread t inside publish.
PublishStepOf(t) ==
  /\ thread'[t] # thread[t]
  /\ \/ thread[t].pc \in {"publish_found", "publish_invoke"}
     \/ published' # published

\* The publish of thread t has nobody to call at this step.
NobodyToCall(t) ==
  \/ thread[t].pc = "idle" /\ \E T \in EventTypes :
       published'[T] # published[T] /\ T \notin DOMAIN m_topics
  \/ thread[t].pc = "publish_found" /\ m_topics[thread[t].type].m_subscribers = <<>>
  \/ thread[t].pc = "publish_invoke" /\ thread[t].callbacks = <<>>

PublishIsNoOp ==
  \A t \in Threads :
    PublishStepOf(t) =>
      /\ m_topics' = m_topics
      /\ handles' = handles
      /\ NobodyToCall(t) =>
           /\ received' = received
           /\ thread'[t].pc # "publish_found"
           /\ thread'[t].pc = "publish_invoke" => thread'[t].callbacks = <<>>

C19_PublishWithoutSubscribers == [][PublishIsNoOp]_vars

\* "A" has a topic whose list was emptied, "B" has no topic; both were
\* published, nothing was called and no topic appeared.
C19_Witness ==
  /\ Quiescent
  /\ published["A"] > 0 /\ published["B"] > 0
  /\ "A" \in DOMAIN m_topics /\ m_topics["A"].m_subscribers = <<>>
  /\ "B" \notin DOMAIN m_topics
  /\ \A cb \in 1..Len(received) : received[cb] = 0


----------------------------------------------------------------------------
(* C20: a result keeps the alternative it was built with; is_ok() and      *)
(* is_err() answer opposite; value() on a result built by err throws a     *)
(* std::runtime_error and returns nothing, error() on a result built by ok *)
(* throws one; value() on an ok result returns the value given to ok, and  *)
(* error() on an err result returns the error given to err.                *)

\* The built object is never changed.
OneVariant == ~Unbuilt => m_result' = m_result

BuiltOk == built.by = "ok"
BuiltErr == built.by \in {"err", "err_string", "err_exception"}

\* The error the factory was called with.
ErrorPassed ==
  CASE built.by = "err" -> built.arg
    [] built.by = "err_string" -> [m_message |-> built.arg]
    [] built.by = "err_exception" -> [m_message |-> built.arg.what]

\* The outcomes recorded for a member.
OutcomesOf(member) ==
  {accesses[n].outcome : n \in {n \in 1..Len(accesses) : accesses[n].member = member}}

Complementary ==
  \A a \in OutcomesOf("is_ok"), b \in OutcomesOf("is_err") :
    /\ a.kind = "returned" /\ b.kind = "returned"
    /\ a.what = ~b.what

AnswersMatchFactory ==
  /\ \A a \in OutcomesOf("is_ok") : a = Returned(BuiltOk)
  /\ \A b \in OutcomesOf("is_err") : b = Returned(BuiltErr)

InvalidAccessThrows ==
  /\ BuiltErr =>
       \A o \in OutcomesOf("value") : o.kind = "thrown" /\ o.type = "std::runtime_error"
  /\ BuiltOk =>
       \A o \in OutcomesOf("error") : o.kind = "thrown" /\ o.type = "std::runtime_error"

ValidAccessReturns ==
  /\ BuiltOk => \A o \in OutcomesOf("value") : o = Returned(built.arg)
  /\ BuiltErr => \A o \in OutcomesOf("error") : o = Returned(ErrorPassed)

----------------------------------------------------------------------------
(* C21: in default_sanitize_html_settings the inline set and the           *)
(* block-level set are subsets of the allowed set, together they cover it, *)
(* and no dangerous tag name is allowed.                                   *)

DefaultPolicyInUse == settings = default_sanitize_html_settings

C21_DefaultPolicy ==
  DefaultPolicyInUse =>
    /\ settings.m_inline_tags \subseteq settings.m_allowed_tags
    /\ settings.m_block_level_tags \subseteq settings.m_allowed_tags
    /\ settings.m_allowed_tags \subseteq settings.m_inline_tags \cup settings.m_block_level_tags
    /\ k_dangerous_tags \cap settings.m_allowed_tags = {}
    /\ k_dangerous_tags =
         { <<"s","c","r","i","p","t">>, <<"i","f","r","a","m","e">>, <<"x","m","l">>,
           <<"e","m","b","e","d">>, <<"o","b","j","e","c","t">>, <<"b","a","s","e">>,
           <<"s","t","y","l","e">> }

\* A call under the default settings has written a block-level tag and an
\* inline tag and has dropped a dangerous one.
C21_Witness ==
  /\ DefaultPolicyInUse
  /\ pc = "done"
  /\ \E k \in 1..Len(tokens) :
       tokens[k].m_type = "start_tag" /\ tokens[k].m_tag_name \in k_dangerous_tags
  /\ \E k \in 1..Len(emitted) : emitted[k] = Piece("start", <<"<","p",">">>)
  /\ \E k \in 1..Len(emitted) : emitted[k] = Piece("start", <<"<","b",">">>)


----------------------------------------------------------------------------
(* C22: at a start tag whose name is dangerous the pass writes nothing and *)
(* goes on at the token that follows the end tag of the same name that     *)
(* brings the same-name nesting depth back to zero, or stops when there is *)
(* no such end tag.                                                        *)

\* The nesting depth of `name` after the tokens idx + 1 .. j, from 1 at idx.
RECURSIVE DepthAfter(_, _, _, _)
DepthAfter(toks, idx, j, name) ==
  IF j <= idx THEN 1
  ELSE DepthAfter(toks, idx, j - 1, name)
         + (IF toks[j].m_type = "start_tag" /\ toks[j].m_tag_name = name THEN 1
            ELSE IF toks[j].m_type = "end_tag" /\ toks[j].m_tag_name = name THEN -1
            ELSE 0)

\* The end tags after idx at which the depth is back to zero.
ClosingEnds(toks, idx) ==
  {j \in (idx + 1)..Len(toks) : DepthAfter(toks, idx, j, toks[idx].m_tag_name) = 0}

AtDangerousTag ==
  /\ pc = "sanitize"
  /\ i <= Len(tokens)
  /\ tokens[i].m_type = "start_tag"
  /\ tokens[i].m_tag_name \in k_dangerous_tags
  /\ tokens[i].m_tag_name \notin settings.m_allowed_tags

DangerousSkipStep ==
  AtDangerousTag =>
    /\ emitted' = emitted
    /\ output' = output
    /\ open_tags' = open_tags
    /\ LET ends == ClosingEnds(tokens, i)
           last == IF ends = {} THEN Len(tokens)
                   ELSE CHOOSE j \in ends : \A m \in ends : j <= m
       IN  IF last = Len(tokens) THEN i' > Len(tokens) ELSE i' = last + 1

C22_DangerousSkipExtent == [][DangerousSkipStep]_vars


----------------------------------------------------------------------------
(* C23: at a text token that is not the unclosed remainder the pass writes *)
(* escape_html of the whole token content and nothing else, whatever tag   *)
(* is open.                                                                *)

AtNormalText ==
  /\ pc = "sanitize"
  /\ i <= Len(tokens)
  /\ tokens[i].m_type = "text"
  /\ ~tokens[i].m_unclosed

NormalTextStep ==
  AtNormalText =>
    /\ emitted' = Append(emitted, Piece("text", escape_html(tokens[i].m_content)))
    /\ output' = output \o escape_html(tokens[i].m_content)
    /\ open_tags' = open_tags
    /\ i' = i + 1

C23_TextEscapedWhole == [][NormalTextStep]_vars


----------------------------------------------------------------------------
(* C24: at an end tag whose name is the top of the open-tag stack the pass *)
(* pops that entry and writes `</name>`; at any other end tag it writes    *)
(* nothing and leaves the output and the stack as they are.                *)

AtEndTag ==
  /\ pc = "sanitize"
  /\ i <= Len(tokens)
  /\ tokens[i].m_type = "end_tag"

ClosesTop == open_tags # <<>> /\ open_tags[Len(open_tags)] = tokens[i].m_tag_name

EndTagHandled ==
  AtEndTag =>
    /\ i' = i + 1
    /\ IF ClosesTop
       THEN /\ emitted' = Append(emitted, Piece("end", <<"<", "/">> \o tokens[i].m_tag_name \o <<">">>))
            /\ output' = output \o <<"<", "/">> \o tokens[i].m_tag_name \o <<">">>
            /\ open_tags' = SubSeq(open_tags, 1, Len(open_tags) - 1)
       ELSE /\ emitted' = emitted
            /\ output' = output
            /\ open_tags' = open_tags

C24_EndTagHandling == [][EndTagHandled]_vars

\* The last token was an end tag naming a deeper entry of the stack: it was
\* discarded, the two start tags are all that was written.
C24_Witness ==
  /\ pc = "sanitize"
  /\ i = Len(tokens) + 1
  /\ Len(tokens) = 3
  /\ tokens[3].m_type = "end_tag"
  /\ Len(open_tags) = 2
  /\ open_tags[1] = tokens[3].m_tag_name
  /\ open_tags[2] # tokens[3].m_tag_name
  /\ Len(emitted) = 2
  /\ output = <<"<">> \o open_tags[1] \o <<">", "<">> \o open_tags[2] \o <<">">>


----------------------------------------------------------------------------
(* C25: the tag_name of a start_tag or end_tag token is the first          *)
(* whitespace-delimited word of the tag body, lower-cased, without a       *)
(* trailing `/`.                                                           *)

\* A name without its trailing `/`.
WithoutTrailingSlash(name) ==
  IF name # <<>> /\ name[Len(name)] = "/" THEN SubSeq(name, 1, Len(name) - 1) ELSE name

\* The tokenizer is at a `<` that opens a tag closed by a `>`.
AtTag ==
  /\ pc = "tokenize"
  /\ pos <= Len(input)
  /\ input[pos] = "<"
  /\ Substr(input, pos, Len(k_cdata_start)) # k_cdata_start
  /\ Substr(input, pos, Len(k_comment_start)) # k_comment_start
  /\ FindChar(input, ">", pos) # 0

\* The characters between `<` or `</` and the next `>`.
TagBody ==
  LET from == IF pos + 1 <= Len(input) /\ input[pos + 1] = "/" THEN pos + 2 ELSE pos + 1
  IN  SubSeq(input, from, FindChar(input, ">", pos) - 1)

TagNameStep ==
  AtTag =>
    /\ Len(tokens') = Len(tokens) + 1
    /\ tokens'[Len(tokens')].m_type \in {"start_tag", "end_tag"}
    /\ tokens'[Len(tokens')].m_tag_name =
         WithoutTrailingSlash(to_lower_case(StreamWord(TagBody)[1]))

C25_TagNames == [][TagNameStep]_vars


----------------------------------------------------------------------------
(* C26: a start tag with an empty name does not start the skip of the      *)
(* obfuscated-script rule: the pass writes nothing for it and goes on at   *)
(* the next token.                                                         *)

AtEmptyNameTag ==
  /\ pc = "sanitize"
  /\ i <= Len(tokens)
  /\ tokens[i].m_type = "start_tag"
  /\ tokens[i].m_tag_name = <<>>

EmptyNameStep ==
  AtEmptyNameTag =>
    /\ emitted' = emitted
    /\ open_tags' = open_tags
    /\ i' = i + 1

C26_EmptyNameNotObfuscated == [][EmptyNameStep]_vars


----------------------------------------------------------------------------
(* C27: at a start tag whose name is a non-empty strict prefix of "script" *)
(* and that is followed by a text token, the pass writes that text         *)
(* escaped, without the missing suffix of "script" at its front, and goes  *)
(* on after the prefix-of-script end tag that balances the prefix-of-      *)
(* script start tags met in between.                                       *)

IsPrefixTag(tok, type) ==
  tok.m_type = type /\ tok.m_tag_name # <<>> /\ is_script_prefix(tok.m_tag_name)

\* The depth of prefix-of-script tags after the tokens idx + 1 .. j.
RECURSIVE PrefixDepthAfter(_, _, _)
PrefixDepthAfter(toks, idx, j) ==
  IF j <= idx THEN 1
  ELSE PrefixDepthAfter(toks, idx, j - 1)
         + (IF IsPrefixTag(toks[j], "start_tag") THEN 1
            ELSE IF IsPrefixTag(toks[j], "end_tag") THEN -1
            ELSE 0)

BalancingEnds(toks, idx) ==
  {j \in (idx + 1)..Len(toks) : PrefixDepthAfter(toks, idx, j) = 0}

AtObfuscatedTag ==
  /\ pc = "sanitize"
  /\ i + 1 <= Len(tokens)
  /\ IsPrefixTag(tokens[i], "start_tag")
  /\ tokens[i + 1].m_type = "text"
  /\ ~tokens[i + 1].m_unclosed

\* The text after the tag, without the rest of the word "script".
TextAfterObfuscatedTag ==
  LET suffix == SubSeq(k_dangerous_full_tag, Len(tokens[i].m_tag_name) + 1,
                       Len(k_dangerous_full_tag))
      text   == tokens[i + 1].m_content
  IN  IF Len(text) >= Len(suffix) /\ SubSeq(text, 1, Len(suffix)) = suffix
      THEN SubSeq(text, Len(suffix) + 1, Len(text)) ELSE text

ObfuscatedSkipStep ==
  AtObfuscatedTag =>
    /\ emitted' = Append(emitted, Piece("text", escape_html(TextAfterObfuscatedTag)))
    /\ open_tags' = open_tags
    /\ LET ends == BalancingEnds(tokens, i)
           last == IF ends = {} THEN Len(tokens)
                   ELSE CHOOSE j \in ends : \A m \in ends : j <= m
       IN  IF last = Len(tokens) THEN i' > Len(tokens) ELSE i' = last + 1

C27_ObfuscatedSkipExtent == [][ObfuscatedSkipStep]_vars


----------------------------------------------------------------------------
(* C28: at a start tag that is neither allowed nor dangerous and whose tag *)
(* text holds a `/name=value` fragment, the pass writes the value, without *)
(* one quote at each end and escaped, as text, and nothing else.  Letter   *)
(* case is not compared.                                                   *)

\* The tag text between `<` and `>` as the tokenizer keeps it.
RawTagText(tok) == tok.m_tag_name \o tok.m_attr_str

\* The position of the `=` of the first `/name=` of s, 0 when there is none.
FragmentEquals(s) ==
  LET slash == FindChar(s, "/", 1)
  IN  IF slash = 0 THEN 0 ELSE FindChar(s, "=", slash + 1)

\* The value of the fragment: the characters after the `=` up to whitespace.
FragmentValue(s) ==
  LET from == FragmentEquals(s) + 1
      sp   == {k \in from..Len(s) : IsSpace(s[k])}
      stop == IF sp = {} THEN Len(s) + 1 ELSE CHOOSE k \in sp : \A m \in sp : k <= m
  IN  SubSeq(s, from, stop - 1)

IsQuote(ch) == ch = "\"" \/ ch = "'"

WithoutSurroundingQuotes(s) ==
  LET a == IF s # <<>> /\ IsQuote(s[1]) THEN SubSeq(s, 2, Len(s)) ELSE s
  IN  IF a # <<>> /\ IsQuote(a[Len(a)]) THEN SubSeq(a, 1, Len(a) - 1) ELSE a

AtConfusedTag ==
  /\ pc = "sanitize"
  /\ i <= Len(tokens)
  /\ tokens[i].m_type = "start_tag"
  /\ tokens[i].m_tag_name \notin settings.m_allowed_tags
  /\ tokens[i].m_tag_name \notin k_dangerous_tags
  /\ ~is_script_prefix(tokens[i].m_tag_name)
  /\ FragmentEquals(RawTagText(tokens[i])) # 0

ConfusedTagStep ==
  AtConfusedTag =>
    /\ Len(emitted') = Len(emitted) + 1
    /\ emitted'[Len(emitted')].kind = "text"
    /\ to_lower_case(emitted'[Len(emitted')].str) =
         to_lower_case(escape_html(WithoutSurroundingQuotes(
                                     FragmentValue(RawTagText(tokens[i])))))
    /\ open_tags' = open_tags
    /\ i' = i + 1

C28_AttributeConfusion == [][ConfusedTagStep]_vars


----------------------------------------------------------------------------
(* C29: with settings.m_preserve_structure false, an allowed block-level   *)
(* start tag met while block-level tags are open first closes them, so no  *)
(* block-level tag is opened inside an open block-level tag.               *)

StrictBalance == settings.m_preserve_structure = FALSE

OpenBlockLevel == {k \in 1..Len(open_tags) : open_tags[k] \in settings.m_block_level_tags}

C29_NoBlockNesting == StrictBalance => Cardinality(OpenBlockLevel) <= 1


----------------------------------------------------------------------------
(* C30: parse_attributes returns the lower-cased names, each once, with    *)
(* the value of the last occurrence of the name; at an allowed `a` tag     *)
(* with several href attributes the safety decision and the value written  *)
(* are those of the last href.                                             *)

\* The attributes of s in the order they are written: name, as written, and
\* value of every iteration of the parser that reads a name.
RECURSIVE Occurrences(_, _)
Occurrences(s, p) ==
  IF SkipSpace(s, p) > Len(s) THEN <<>>
  ELSE LET name_start == SkipSpace(s, p)
           it         == AttrIteration(s, p)
           written    == SubSeq(s, name_start, NameEnd(s, name_start) - 1)
       IN  (IF written # <<>> THEN <<[name |-> written, value |-> it.value]>> ELSE <<>>)
             \o Occurrences(s, it.next)

\* The occurrences of a name, in any letter case.
Named(occ, name) == {k \in 1..Len(occ) : to_lower_case(occ[k].name) = name}

\* The value of the last occurrence of a name.
LastValue(occ, name) ==
  occ[CHOOSE k \in Named(occ, name) : \A m \in Named(occ, name) : m <= k].value

\* The map of a start tag holds the last value of every name written.
LastOccurrenceWins ==
  \A k \in 1..Len(tokens) :
    tokens[k].m_type = "start_tag" =>
      LET occ   == Occurrences(tokens[k].m_attr_str, 1)
          attrs == parse_attributes(tokens[k].m_attr_str)
      IN  /\ DOMAIN attrs = {to_lower_case(occ[n].name) : n \in 1..Len(occ)}
          /\ \A name \in DOMAIN attrs : attrs[name] = LastValue(occ, name)

AtAnchorWithHref ==
  /\ pc = "sanitize"
  /\ i <= Len(tokens)
  /\ tokens[i].m_type = "start_tag"
  /\ tokens[i].m_tag_name = <<"a">>
  /\ <<"a">> \in settings.m_allowed_tags
  /\ Named(Occurrences(tokens[i].m_attr_str, 1), <<"h","r","e","f">>) # {}

\* The tag written is decided by, and holds, the last href.
LastHrefStep ==
  AtAnchorWithHref =>
    LET last == LastValue(Occurrences(tokens[i].m_attr_str, 1), <<"h","r","e","f">>)
    IN  emitted' = Append(emitted,
                     IF is_safe_href(last)
                     THEN Piece("start", <<"<","a"," ","h","r","e","f","=","\"">> \o last \o <<"\"",">">>)
                     ELSE Piece("start", <<"<","a",">">>))

C30_DuplicateAttributes == [][LastHrefStep]_vars /\ []LastOccurrenceWins

\* An anchor with a safe href followed by a javascript: HREF has been
\* written as the bare tag.
C30_Witness ==
  /\ pc = "sanitize"
  /\ i = 2
  /\ tokens[1].m_type = "start_tag"
  /\ tokens[1].m_tag_name = <<"a">>
  /\ LET occ == Occurrences(tokens[1].m_attr_str, 1)
     IN  /\ Len(occ) = 2
         /\ occ[1].name = <<"h","r","e","f">> /\ is_safe_href(occ[1].value)
         /\ occ[2].name = <<"H","R","E","F">>
         /\ occ[2].value = <<"j","a","v","a","s","c","r","i","p","t",":","x">>
         /\ ~is_safe_href(occ[2].value)
  /\ emitted = <<Piece("start", <<"<","a",">">>)>>


----------------------------------------------------------------------------
(* C31: with the cursor at `<![CDATA[` the tokenizer makes no token and    *)
(* moves right after the next `]]>`, or to the end of the input when       *)
(* there is none; nothing is written.                                      *)

CdataOpener == <<"<","!","[","C","D","A","T","A","[">>
CdataCloser == <<"]","]",">">>

AtCdata ==
  /\ pc = "tokenize"
  /\ pos <= Len(input)
  /\ Substr(input, pos, Len(CdataOpener)) = CdataOpener

\* The first position at or after `from` where the closer stands, 0 if none.
CloserAt(from) ==
  LET at == {k \in from..(Len(input) - 2) : SubSeq(input, k, k + 2) = CdataCloser}
  IN  IF at = {} THEN 0 ELSE CHOOSE k \in at : \A m \in at : k <= m

CdataStep ==
  AtCdata =>
    /\ tokens' = tokens
    /\ output' = output
    /\ emitted' = emitted
    /\ pc' = "tokenize"
    /\ pos' = IF CloserAt(pos + Len(CdataOpener)) = 0 THEN Len(input) + 1
              ELSE CloserAt(pos + Len(CdataOpener)) + Len(CdataCloser)

\* An input that is one CDATA section gives no token and an empty output.
WholeInputCdata ==
  (pc = "done" /\ input # <<>> /\ StartsWith(input, CdataOpener)
     /\ (CloserAt(Len(CdataOpener) + 1) = 0
           \/ CloserAt(Len(CdataOpener) + 1) + Len(CdataCloser) = Len(input) + 1))
    => tokens = <<>> /\ result.value = <<>>

C31_CdataDiscarded == [][CdataStep]_vars /\ []WholeInputCdata

\* A section that holds the tag <p> was discarded whole.
C31_Witness ==
  /\ pc = "done"
  /\ input = CdataOpener \o <<"<","p",">">> \o CdataCloser
  /\ tokens = <<>>
  /\ result.value = <<>>


----------------------------------------------------------------------------
(* C32: the attribute string of a start_tag token is the whole tag body    *)
(* after the tag name, up to the closing `>`, line breaks included.        *)

AttrStrStep ==
  (AtTag /\ input[pos + 1] # "/") =>
    /\ Len(tokens') = Len(tokens) + 1
    /\ tokens'[Len(tokens')].m_type = "start_tag"
    /\ tokens'[Len(tokens')].m_attr_str =
         SubSeq(TagBody, StreamWord(TagBody)[2], Len(TagBody))

C32_WholeAttributeString == [][AttrStrStep]_vars


----------------------------------------------------------------------------
(* C33: writing the tag names and the attribute names of the input in      *)
(* another letter case does not change the output, and every tag name      *)
(* written is lower-case.                                                  *)

UpperChar(ch) ==
  IF \E k \in 1..Len(LowerLetters) : LowerLetters[k] = ch
  THEN UpperLetters[CHOOSE k \in 1..Len(LowerLetters) : LowerLetters[k] = ch]
  ELSE ch

\* The string s in the letter case `to`: "upper" or "lower".
InCase(s, to) ==
  IF to = "lower" THEN to_lower_case(s)
  ELSE [k \in 1..Len(s) |-> UpperChar(s[k])] \o <<>>

\* The attributes s from position p on, with the names in the letter case.
RECURSIVE AttrNamesInCase(_, _, _)
AttrNamesInCase(s, p, to) ==
  IF SkipSpace(s, p) > Len(s) THEN SubSeq(s, p, Len(s))
  ELSE LET name_start == SkipSpace(s, p)
           name_end   == NameEnd(s, name_start)
           next       == AttrIteration(s, p).next
       IN  SubSeq(s, p, name_start - 1)
             \o InCase(SubSeq(s, name_start, name_end - 1), to)
             \o SubSeq(s, name_end, Min(next, Len(s) + 1) - 1)
             \o AttrNamesInCase(s, next, to)

\* A tag body with its tag name and attribute names in the letter case.
TagBodyInCase(body, to) ==
  LET first    == SkipSpace(body, 1)
      stops    == {k \in first..Len(body) : IsSpace(body[k]) \/ body[k] \in {"/", "="}}
      name_end == IF stops = {} THEN Len(body) + 1
                  ELSE CHOOSE k \in stops : \A m \in stops : k <= m
      word_end == StreamWord(body)[2]
  IN  SubSeq(body, 1, first - 1)
        \o InCase(SubSeq(body, first, name_end - 1), to)
        \o SubSeq(body, name_end, word_end - 1)
        \o AttrNamesInCase(SubSeq(body, word_end, Len(body)), 1, to)

\* The input from position p on, with the names of its tags in the letter case.
RECURSIVE NamesInCase(_, _, _)
NamesInCase(in, p, to) ==
  IF p > Len(in) THEN <<>>
  ELSE LET it == TokenizeIteration(in, p)
       IN  IF it.stop THEN SubSeq(in, p, Len(in))
           ELSE IF it.toks # <<>> /\ it.toks[1].m_type \in {"start_tag", "end_tag"}
           THEN LET from == IF it.toks[1].m_type = "end_tag" THEN p + 2 ELSE p + 1
                IN  SubSeq(in, p, from - 1)
                      \o TagBodyInCase(SubSeq(in, from, it.next - 2), to)
                      \o <<">">>
                      \o NamesInCase(in, it.next, to)
           ELSE SubSeq(in, p, it.next - 1) \o NamesInCase(in, it.next, to)

SameInEveryCase ==
  pc = "done" =>
    \A to \in {"upper", "lower"} :
      result.value = sanitize_html(NamesInCase(input, 1, to), settings)

WrittenNamesLowerCase ==
  \A k \in 1..Len(emitted) :
    emitted[k].kind \in {"start", "end"} =>
      LET name == IF emitted[k].kind = "start" THEN WrittenName(emitted[k])
                  ELSE ClosedName(emitted[k])
      IN  name = to_lower_case(name)

C33_CaseInsensitiveMarkup == SameInEveryCase /\ WrittenNamesLowerCase

\* An anchor whose HREF, in upper case, holds a javascript: value has been
\* written as the bare tag; the same input with `<A` is another input.
C33_Witness ==
  /\ pc = "done"
  /\ Contains(input, <<"<","a"," ","H","R","E","F","=","'","j","a","v","a","s","c","r","i","p","t",":","x","'",">">>)
  /\ Contains(NamesInCase(input, 1, "upper"), <<"<","A"," ","H","R","E","F","=">>)
  /\ Contains(NamesInCase(input, 1, "lower"), <<"<","a"," ","h","r","e","f","=">>)
  /\ result.value = <<"<","a",">","<","/","a",">">>


----------------------------------------------------------------------------
(* C34: after every token the open-tag stack holds the names of the        *)
(* non-void start tags written so far that have not been closed, in the    *)
(* order they were written; every entry is an allowed tag, and the size of *)
(* the stack is the number of non-void start tags written minus the number *)
(* of end tags written.                                                    *)

NonVoidStarts ==
  {k \in 1..Len(emitted) :
     emitted[k].kind = "start" /\ WrittenName(emitted[k]) \notin k_void_elements}

EndsWritten == {k \in 1..Len(emitted) : emitted[k].kind = "end"}

StackIsUnclosedStarts ==
  LET r == Replay(emitted, <<>>)
  IN  r.ok /\ r.stack = open_tags

StackEntriesAllowed ==
  \A k \in 1..Len(open_tags) : open_tags[k] \in settings.m_allowed_tags

StackSize == Len(open_tags) = Cardinality(NonVoidStarts) - Cardinality(EndsWritten)

C34_OpenTagStack == StackIsUnclosedStarts /\ StackEntriesAllowed /\ StackSize

\* Two start tags and the closer of the inner one were written: the stack
\* holds the outer name.
C34_Witness ==
  /\ pc = "sanitize"
  /\ Len(open_tags) = 1
  /\ Cardinality(NonVoidStarts) = 2
  /\ Cardinality(EndsWritten) = 1
  /\ emitted[1].kind = "start" /\ WrittenName(emitted[1]) = open_tags[1]


----------------------------------------------------------------------------
(* C35: every `<` and `>` of the output is the first or the last character *)
(* of a tag the pass wrote; text written holds neither.                    *)

AngleAt(str) == {k \in 1..Len(str) : str[k] \in {"<", ">"}}

OnlyDelimiters(piece) ==
  IF piece.kind = "text" THEN AngleAt(piece.str) = {}
  ELSE /\ AngleAt(piece.str) = {1, Len(piece.str)}
       /\ piece.str[1] = "<"
       /\ piece.str[Len(piece.str)] = ">"

C35_ContentNeverMarkup ==
  /\ output = PiecesText(emitted)
  /\ \A k \in 1..Len(emitted) : OnlyDelimiters(emitted[k])


----------------------------------------------------------------------------
(* C36: under every settings value no start tag whose name is in the       *)
(* dangerous set is written.                                               *)

DangerousStarts ==
  {k \in 1..Len(emitted) :
     emitted[k].kind = "start" /\ WrittenName(emitted[k]) \in k_dangerous_tags}

C36_DangerousAlwaysDropped == DangerousStarts = {}


----------------------------------------------------------------------------
(* C38: a callback is not called once the reset() of its subscription has  *)
(* returned, whichever publish makes the call.                             *)

CalledIn(cb) == received'[cb] = received[cb] + 1

C38_Step ==
  \A cb \in 1..Len(handles) : CalledIn(cb) => handles[cb].state # "empty"

C38_NoDeliveryAfterReset == [][C38_Step]_vars


----------------------------------------------------------------------------
(* aww::pubsub_subscription (include/aww-pubsub/aww-pubsub.hpp): the       *)
(* handle objects of one topic and the member calls made on them by one    *)
(* thread.  m_unsubscribe is the id its function unsubscribes, 0 when the  *)
(* std::function is empty.                                                 *)

\* The number of constructor, member and destructor calls made.
MaxHandleCalls == 3

\* pubsub_subscription(unsubscribe_func), with the function of pubsub_topic::subscribe.
Subscription(id) == [m_unsubscribe |-> id, destroyed |-> FALSE]

\* pubsub_subscription() noexcept = default.
DefaultSubscription == Subscription(0)

\* Mutant of MovedFrom: the source of a move keeps its function.
MovedFromKept(object) == object

\* `other.m_unsubscribe = {}` at the end of the move constructor and of the
\* move assignment.
MovedFrom(object) == [object EXCEPT !.m_unsubscribe = 0]

\* reset(): the function that is run, 0 when m_unsubscribe is empty.
ResetRuns(subs, h) == subs[h].m_unsubscribe

\* reset(): `m_unsubscribe = {}` after the call, nothing when it was empty.
AfterReset(subs, h) == [subs EXCEPT ![h].m_unsubscribe = 0]

\* release(): `m_unsubscribe = {}`, no call.
AfterRelease(subs, h) == [subs EXCEPT ![h].m_unsubscribe = 0]

\* pubsub_subscription(pubsub_subscription&& other): a new object.
AfterMoveConstruct(subs, other) ==
  Append([subs EXCEPT ![other] = MovedFrom(@)], Subscription(subs[other].m_unsubscribe))

\* operator=(pubsub_subscription&& other): the function run by its reset().
MoveAssignRuns(subs, h, other) == IF h # other THEN ResetRuns(subs, h) ELSE 0

\* operator=(pubsub_subscription&& other): nothing when this == &other.
AfterMoveAssign(subs, h, other) ==
  IF h # other
  THEN [AfterReset(subs, h) EXCEPT ![h].m_unsubscribe = subs[other].m_unsubscribe,
                                   ![other] = MovedFrom(@)]
  ELSE subs

\* ~pubsub_subscription(): reset().
AfterDestroy(subs, h) == [AfterReset(subs, h) EXCEPT ![h].destroyed = TRUE]

\* The lambda `[this, id]() { this->unsubscribe(id); }` of the one topic.
TopicsAfterRun(topics, id) ==
  IF id = 0 THEN topics
  ELSE [topics EXCEPT !["A"].m_subscribers = Unsubscribed(@, id)]

\* The objects that were constructed and not destroyed.
Alive == {h \in 1..Len(subscriptions) : ~subscriptions[h].destroyed}

\* Everything but the handle objects and the topic map.
besideHandle == <<input, settings, pc, pos, tokens, i, output, open_tags, result, emitted,
                  pairVars, resultVars, lockVars,
                  m_map_mutex, handles, thread, received, published>>

\* One call on object h: the function it runs and the objects after it.
HandleCall(op, h, held, runs, after) ==
  /\ Len(ran) < MaxHandleCalls
  /\ m_topics' = TopicsAfterRun(m_topics, runs)
  /\ subscriptions' = after
  /\ ran' = Append(ran, [op |-> op, h |-> h, held |-> held, id |-> runs])
  /\ UNCHANGED besideHandle

HandleDefault ==
  HandleCall("construct", Len(subscriptions) + 1, 0, 0,
             Append(subscriptions, DefaultSubscription))

HandleReset(h) ==
  /\ h \in Alive
  /\ HandleCall("reset", h, subscriptions[h].m_unsubscribe,
                ResetRuns(subscriptions, h), AfterReset(subscriptions, h))

HandleRelease(h) ==
  /\ h \in Alive
  /\ HandleCall("release", h, subscriptions[h].m_unsubscribe,
                0, AfterRelease(subscriptions, h))

HandleMoveConstruct(other) ==
  /\ other \in Alive
  /\ HandleCall("move_construct", Len(subscriptions) + 1, 0,
                0, AfterMoveConstruct(subscriptions, other))

HandleMoveAssign(h, other) ==
  /\ h \in Alive
  /\ other \in Alive
  /\ HandleCall("move_assign", h, subscriptions[h].m_unsubscribe,
                MoveAssignRuns(subscriptions, h, other),
                AfterMoveAssign(subscriptions, h, other))

HandleDestroy(h) ==
  /\ h \in Alive
  /\ HandleCall("destroy", h, subscriptions[h].m_unsubscribe,
                ResetRuns(subscriptions, h), AfterDestroy(subscriptions, h))

NextHandle ==
  \/ HandleDefault
  \/ \E h \in Alive : HandleReset(h)
  \/ \E h \in Alive : HandleRelease(h)
  \/ \E other \in Alive : HandleMoveConstruct(other)
  \/ \E h \in Alive : \E other \in Alive : HandleMoveAssign(h, other)
  \/ \E h \in Alive : HandleDestroy(h)

\* The handles returned by subscribe<A> calls 1 .. n.
RECURSIVE ReturnedSubscriptions(_)
ReturnedSubscriptions(n) ==
  IF n = 0 THEN <<>> ELSE Append(ReturnedSubscriptions(n - 1), Subscription(n))

\* A bus after one or two subscribe<A> calls, the handles kept by the caller.
InitHandle ==
  /\ SingleAtRest(default_sanitize_html_settings)
  /\ PairAtRest
  /\ ResultAtRest
  /\ LocksAtRest
  /\ \E types \in { <<"A">>, <<"A", "A">> } :
       /\ m_topics = InitialTopics(types, Len(types))
       /\ subscriptions = ReturnedSubscriptions(Len(types))
  /\ ran = <<>>
  /\ m_map_mutex = 0
  /\ handles = <<>>
  /\ thread = <<>>
  /\ received = <<>>
  /\ published = <<>>

SpecHandle == InitHandle /\ [][NextHandle]_vars


----------------------------------------------------------------------------
(* C39: over every sequence of reset, release, move construction, move     *)
(* assignment and destruction the unsubscribe function of a subscription   *)
(* is run at most once; an empty handle runs nothing, the source of a move *)
(* is left empty, a move assignment onto a handle that holds a function    *)
(* runs that function first, and a released subscriber stays registered.   *)

\* The calls that ran the unsubscribe function of id.
RunsOf(id) == {k \in 1..Len(ran) : ran[k].id = id}

\* The ids of the subscribers registered in the topic.
RegisteredIds ==
  {m_topics["A"].m_subscribers[k].id : k \in 1..Len(m_topics["A"].m_subscribers)}

\* The ids handed out by the subscribe calls.
SubscribedIds == 1..m_topics["A"].m_last_id

\* The objects that hold the function of id.
Holders(id) == {h \in 1..Len(subscriptions) : subscriptions[h].m_unsubscribe = id}

\* The ids whose handle was released while it held them.
ReleasedIds == {ran[k].held : k \in {n \in 1..Len(ran) : ran[n].op = "release"}} \ {0}

AtMostOnce == \A id \in SubscribedIds : Cardinality(RunsOf(id)) <= 1

RegisteredUntilRun == RegisteredIds = {id \in SubscribedIds : RunsOf(id) = {}}

InertWhenEmpty ==
  \A k \in 1..Len(ran) : ran[k].held = 0 => ran[k].id = 0

OneHolder ==
  \A id \in SubscribedIds :
    /\ Cardinality(Holders(id)) <= 1
    /\ Holders(id) # {} => (id \in RegisteredIds /\ Holders(id) \subseteq Alive)

AssignUnsubscribesPrevious ==
  \A k \in 1..Len(ran) :
    (ran[k].op \in {"move_assign", "reset", "destroy"} /\ ran[k].held # 0)
      => (ran[k].id = ran[k].held \/ (ran[k].op = "move_assign" /\ ran[k].id = 0))

ReleasedStayRegistered == ReleasedIds \subseteq RegisteredIds

C39_UnsubscribeAtMostOnce ==
  /\ AtMostOnce
  /\ RegisteredUntilRun
  /\ InertWhenEmpty
  /\ OneHolder
  /\ AssignUnsubscribesPrevious
  /\ ReleasedStayRegistered

\* A handle was moved into a new object, the new object was move-assigned
\* onto the handle of the other subscription, and that one was unsubscribed.
C39_Witness ==
  /\ Len(ran) = 3
  /\ ran[1].op = "move_construct"
  /\ ran[2].op = "move_assign" /\ ran[2].held # 0 /\ ran[2].id = ran[2].held
  /\ ran[3].op = "destroy" /\ ran[3].h = 1 /\ ran[3].id = 0
  /\ Cardinality(RegisteredIds) = 1


----------------------------------------------------------------------------
(* C40: a subscribe gives the new subscriber an id that no registered      *)
(* subscriber of the topic has; the unsubscribe of one subscription takes  *)
(* that subscriber out of the list and leaves the others in their order;   *)
(* a publish copies the callbacks in the order of the list.                *)

IdsOf(subscribers) == {subscribers[k].id : k \in 1..Len(subscribers)}

\* The step of thread t adds a subscriber to the topic of its subscribe call.
AddsSubscriber(t) ==
  thread[t].pc = "subscribe_locked" /\ thread'[t].pc = "subscribe_added"

\* The step of thread t is the unsubscribe of its reset call.
RemovesSubscriber(t) ==
  thread[t].pc = "idle" /\ thread'[t].pc = "reset_unsubscribed"

FreshId(t) ==
  LET before == m_topics[thread[t].type].m_subscribers
      after  == m_topics'[thread[t].type].m_subscribers
  IN  /\ Len(after) = Len(before) + 1
      /\ SubSeq(after, 1, Len(before)) = before
      /\ after[Len(after)].cb = thread[t].cb
      /\ after[Len(after)].id \notin IdsOf(before)

ExactRemoval(t) ==
  LET cb     == thread'[t].cb
      before == m_topics[handles[cb].type].m_subscribers
      after  == m_topics'[handles[cb].type].m_subscribers
  IN  /\ after = SelectSeq(before, LAMBDA item : item.cb # cb)
      /\ \A T \in DOMAIN m_topics \ {handles[cb].type} : m_topics'[T] = m_topics[T]

CopiesInOrder(t) ==
  (thread[t].pc = "publish_found" /\ thread'[t].pc = "publish_invoke")
    => thread'[t].callbacks = Callbacks(m_topics[thread[t].type].m_subscribers)

C40_Step ==
  \A t \in Threads :
    /\ AddsSubscriber(t) => FreshId(t)
    /\ RemovesSubscriber(t) => ExactRemoval(t)
    /\ CopiesInOrder(t)

C40_SubscriberBookkeeping == [][C40_Step]_vars


----------------------------------------------------------------------------
(* aww::pubsub_event_bus with its mutexes: every acquisition of            *)
(* m_map_mutex and of a topic's m_mutex that can wait is a step of its     *)
(* own, and a callback may call subscribe, publish and reset on the bus    *)
(* that is calling it.  A thread is the stack of the bus calls it is in.   *)
(*                                                                         *)
(* A callback is a std::function and may own a pubsub_subscription in its  *)
(* captured state (through a shared_ptr, a std::function being copyable):  *)
(* held_in of a handle is the callback that owns it, 0 when the caller     *)
(* holds it.  The handle is destroyed with the last copy of the callback.  *)

\* The number of subscribe, publish and reset calls, nested ones included.
MaxBusCalls == 3

\* A call of `op` that has just been entered.
BusFrame(op, at, type, cb) ==
  [op |-> op, pc |-> at, type |-> type, cb |-> cb, callbacks |-> <<>>, k |-> 0,
   last |-> "none"]

Frames(t) == bus_stack[t].frames

Top(t) == Frames(t)[Len(Frames(t))]

\* Thread t is in a bus call.
Busy(t) == Frames(t) # <<>>

\* Thread t is at `at` of a call of `op`, its innermost one.
At(t, op, at) == Busy(t) /\ Top(t).op = op /\ Top(t).pc = at

RECURSIVE SumCalls(_)
SumCalls(ts) ==
  IF ts = {} THEN 0
  ELSE LET t == CHOOSE t \in ts : TRUE IN bus_stack[t].calls + SumCalls(ts \ {t})

\* Thread t is between two calls, or in the body of a callback, and may
\* call the bus.
MayCallBus(t) ==
  /\ SumCalls(Threads) < MaxBusCalls
  /\ ~Busy(t) \/ At(t, "publish", "in_callback")

Entered(t, f) ==
  [bus_stack EXCEPT ![t].frames = Append(@, f), ![t].calls = @ + 1]

\* A destructor run by the call thread t is in: the call goes on at `at`
\* when the reset() of the destructor has returned.
Destroying(t, at, h) ==
  [bus_stack EXCEPT ![t].frames =
     Append([@ EXCEPT ![Len(@)].pc = at],
            BusFrame("reset", "lock_topic", handles[h].type, h))]

\* A handle with the callback that owns it.
HeldIn(handle, cb) ==
  [owner |-> handle.owner, type |-> handle.type, id |-> handle.id,
   state |-> handle.state, held_in |-> cb]

\* The handles a caller holds and may hand to a callback: at most one
\* callback of the bus owns a handle.
Free ==
  IF \E h \in 1..Len(handles) : handles[h].held_in # 0 THEN {}
  ELSE {h \in 1..Len(handles) : handles[h].state = "active"}

\* The copies of callback cb: the entry of m_subscribers and the vectors
\* `callbacks` of the publish calls in progress.
Registered(cb) ==
  \E T \in DOMAIN m_topics :
    \E k \in 1..Len(m_topics[T].m_subscribers) : m_topics[T].m_subscribers[k].cb = cb

CopiedBy(cb) ==
  { <<t, d>> \in Threads \X (1..MaxBusCalls) :
      /\ d <= Len(Frames(t))
      /\ Frames(t)[d].op = "publish"
      /\ \E k \in 1..Len(Frames(t)[d].callbacks) : Frames(t)[d].callbacks[k] = cb }

\* The handles owned by the callbacks `gone` whose destructor still has a
\* function to run.
Orphaned(gone) ==
  {h \in 1..Len(handles) : handles[h].held_in \in gone /\ handles[h].state = "active"}

Moved(t, f) ==
  [bus_stack EXCEPT ![t].frames = [@ EXCEPT ![Len(@)] = f]]

\* The call returns; in a callback the caller notes what it called.
Left(t) ==
  LET n    == Len(Frames(t))
      rest == SubSeq(Frames(t), 1, n - 1)
  IN  [bus_stack EXCEPT ![t].frames =
         IF n = 1 THEN rest
         ELSE [rest EXCEPT ![n - 1].last = Frames(t)[n].op]]

\* The topic mutexes after the lookup of subscribe: a new topic has its own.
MutexesOf(topics) ==
  [T \in DOMAIN topics |-> IF T \in DOMAIN m_mutex THEN m_mutex[T] ELSE 0]

\* pubsub_topic::publish: the lock_guard of the copy block is destroyed at
\* the end of the block, before the callbacks are called.
MutexAfterCopy(t) == 0

\* Everything but the bus with its mutexes.
besideLocks == <<input, settings, pc, pos, tokens, i, output, open_tags, result, emitted,
                 pairVars, resultVars, handleVars, thread, received, published>>

\* pubsub_event_bus::subscribe is called with a callback that owns nothing
\* (own = 0) or that owns the handle `own`.
EnterSubscribe(t, type, own) ==
  /\ MayCallBus(t)
  /\ own \in Free \cup {0}
  /\ handles' = Append([h \in 1..Len(handles) |->
                          IF h = own THEN HeldIn(handles[h], Len(handles) + 1)
                          ELSE handles[h]],
                       [owner |-> t, type |-> type, id |-> 0, state |-> "pending",
                        held_in |-> 0])
  /\ bus_stack' = Entered(t, BusFrame("subscribe", "lock_map", type, Len(handles) + 1))
  /\ UNCHANGED <<m_topics, m_map_mutex, m_mutex, besideLocks>>

\* subscribe: lock_guard on m_map_mutex, then find or emplace of the topic.
SubscribeLockMap(t) ==
  /\ At(t, "subscribe", "lock_map")
  /\ m_map_mutex = 0
  /\ m_map_mutex' = t
  /\ m_topics' = FindOrCreate(m_topics, Top(t).type)
  /\ m_mutex' = MutexesOf(FindOrCreate(m_topics, Top(t).type))
  /\ bus_stack' = Moved(t, [Top(t) EXCEPT !.pc = "lock_topic"])
  /\ UNCHANGED <<handles, besideLocks>>

\* pubsub_topic::subscribe: lock_guard on m_mutex with m_map_mutex held,
\* ++m_last_id and emplace_back.
SubscribeLockTopic(t) ==
  /\ At(t, "subscribe", "lock_topic")
  /\ m_mutex[Top(t).type] = 0
  /\ m_mutex' = [m_mutex EXCEPT ![Top(t).type] = t]
  /\ m_topics' = [m_topics EXCEPT ![Top(t).type] = TopicSubscribe(@, Top(t).cb)]
  /\ handles' = [handles EXCEPT ![Top(t).cb].id =
                                   UintIncrement(m_topics[Top(t).type].m_last_id)]
  /\ bus_stack' = Moved(t, [Top(t) EXCEPT !.pc = "unlock"])
  /\ UNCHANGED <<m_map_mutex, besideLocks>>

\* Both lock_guards are destroyed and the pubsub_subscription is returned.
SubscribeUnlock(t) ==
  /\ At(t, "subscribe", "unlock")
  /\ m_mutex' = [m_mutex EXCEPT ![Top(t).type] = 0]
  /\ m_map_mutex' = 0
  /\ handles' = [handles EXCEPT ![Top(t).cb].state = "active"]
  /\ bus_stack' = Left(t)
  /\ UNCHANGED <<m_topics, besideLocks>>

\* pubsub_event_bus::publish is called.
EnterPublish(t, type) ==
  /\ MayCallBus(t)
  /\ bus_stack' = Entered(t, BusFrame("publish", "lock_map", type, 0))
  /\ UNCHANGED <<m_topics, m_map_mutex, m_mutex, handles, besideLocks>>

\* publish: the block under m_map_mutex; no topic, and publish returns.
PublishLockMapNoTopic(t) ==
  /\ At(t, "publish", "lock_map")
  /\ m_map_mutex = 0
  /\ Top(t).type \notin DOMAIN m_topics
  /\ bus_stack' = Left(t)
  /\ UNCHANGED <<m_topics, m_map_mutex, m_mutex, handles, besideLocks>>

\* publish: the block under m_map_mutex finds the topic and is left.
PublishLockMap(t) ==
  /\ At(t, "publish", "lock_map")
  /\ m_map_mutex = 0
  /\ Top(t).type \in DOMAIN m_topics
  /\ bus_stack' = Moved(t, [Top(t) EXCEPT !.pc = "lock_topic"])
  /\ UNCHANGED <<m_topics, m_map_mutex, m_mutex, handles, besideLocks>>

\* pubsub_topic::publish: the block under m_mutex that copies the callbacks.
PublishLockTopic(t) ==
  /\ At(t, "publish", "lock_topic")
  /\ m_mutex[Top(t).type] = 0
  /\ m_mutex' = [m_mutex EXCEPT ![Top(t).type] = MutexAfterCopy(t)]
  /\ bus_stack' = Moved(t, [Top(t) EXCEPT !.pc = "invoke",
                                         !.callbacks = Snapshot(m_topics, Top(t).type),
                                         !.k = 1])
  /\ UNCHANGED <<m_topics, m_map_mutex, handles, besideLocks>>

\* `fn(event)`: the next callback is called.
CallbackCalled(t) ==
  /\ At(t, "publish", "invoke")
  /\ Top(t).k <= Len(Top(t).callbacks)
  /\ bus_stack' = Moved(t, [Top(t) EXCEPT !.pc = "in_callback", !.last = "none"])
  /\ UNCHANGED <<m_topics, m_map_mutex, m_mutex, handles, besideLocks>>

\* The callback returns to the loop of publish.
CallbackReturns(t) ==
  /\ At(t, "publish", "in_callback")
  /\ bus_stack' = Moved(t, [Top(t) EXCEPT !.pc = "invoke", !.k = @ + 1])
  /\ UNCHANGED <<m_topics, m_map_mutex, m_mutex, handles, besideLocks>>

\* After the last callback the vector `callbacks` is destroyed, no mutex
\* held: the last copy of a callback takes the handle it owns with it.
PublishDone(t) ==
  /\ At(t, "publish", "invoke")
  /\ Top(t).k > Len(Top(t).callbacks)
  /\ LET gone   == {Top(t).callbacks[k] : k \in 1..Len(Top(t).callbacks)}
         orphan == {h \in Orphaned(gone) :
                      /\ ~Registered(handles[h].held_in)
                      /\ CopiedBy(handles[h].held_in) = {<<t, Len(Frames(t))>>}}
     IN  IF orphan = {}
         THEN /\ bus_stack' = Left(t)
              /\ UNCHANGED handles
         ELSE \E h \in orphan :
                /\ bus_stack' = Destroying(t, "destroyed", h)
                /\ handles' = [handles EXCEPT ![h].state = "resetting"]
  /\ UNCHANGED <<m_topics, m_map_mutex, m_mutex, besideLocks>>

\* publish returns.
PublishReturns(t) ==
  /\ At(t, "publish", "destroyed")
  /\ bus_stack' = Left(t)
  /\ UNCHANGED <<m_topics, m_map_mutex, m_mutex, handles, besideLocks>>

\* pubsub_subscription::reset is called on a handle that the caller holds,
\* that holds its function and that no other call is resetting.
EnterReset(t, cb) ==
  /\ MayCallBus(t)
  /\ handles[cb].state = "active"
  /\ handles[cb].held_in = 0
  /\ handles' = [handles EXCEPT ![cb].state = "resetting"]
  /\ bus_stack' = Entered(t, BusFrame("reset", "lock_topic", handles[cb].type, cb))
  /\ UNCHANGED <<m_topics, m_map_mutex, m_mutex, besideLocks>>

\* pubsub_topic::unsubscribe: lock_guard on m_mutex.
ResetLockTopic(t) ==
  /\ At(t, "reset", "lock_topic")
  /\ m_mutex[Top(t).type] = 0
  /\ m_mutex' = [m_mutex EXCEPT ![Top(t).type] = t]
  /\ bus_stack' = Moved(t, [Top(t) EXCEPT !.pc = "erase"])
  /\ UNCHANGED <<m_topics, m_map_mutex, handles, besideLocks>>

\* unsubscribe: remove_if and erase with m_mutex held.  erase destroys the
\* std::function of the subscriber; when that is the last copy of the
\* callback, the handle the callback owns is destroyed here.
ResetErase(t) ==
  /\ At(t, "reset", "erase")
  /\ m_topics' = [m_topics EXCEPT ![Top(t).type].m_subscribers =
                                     Unsubscribed(@, handles[Top(t).cb].id)]
  /\ LET gone   == {item.cb : item \in
                      {m_topics[Top(t).type].m_subscribers[k] :
                         k \in 1..Len(m_topics[Top(t).type].m_subscribers)} \
                      {m_topics'[Top(t).type].m_subscribers[k] :
                         k \in 1..Len(m_topics'[Top(t).type].m_subscribers)}}
         orphan == {h \in Orphaned(gone) : CopiedBy(handles[h].held_in) = {}}
     IN  IF orphan = {}
         THEN /\ bus_stack' = Moved(t, [Top(t) EXCEPT !.pc = "unlock"])
              /\ UNCHANGED handles
         ELSE \E h \in orphan :
                /\ bus_stack' = Destroying(t, "unlock", h)
                /\ handles' = [handles EXCEPT ![h].state = "resetting"]
  /\ UNCHANGED <<m_map_mutex, m_mutex, besideLocks>>

\* unsubscribe returns, the lock_guard is destroyed; reset empties the handle.
ResetUnlock(t) ==
  /\ At(t, "reset", "unlock")
  /\ m_mutex' = [m_mutex EXCEPT ![Top(t).type] = 0]
  /\ handles' = [handles EXCEPT ![Top(t).cb].state = "empty"]
  /\ bus_stack' = Left(t)
  /\ UNCHANGED <<m_topics, m_map_mutex, besideLocks>>

\* The step of thread t in the call it is in.
Proceed(t) ==
  \/ SubscribeLockMap(t)
  \/ SubscribeLockTopic(t)
  \/ SubscribeUnlock(t)
  \/ PublishLockMapNoTopic(t)
  \/ PublishLockMap(t)
  \/ PublishLockTopic(t)
  \/ CallbackCalled(t)
  \/ CallbackReturns(t)
  \/ PublishDone(t)
  \/ PublishReturns(t)
  \/ ResetLockTopic(t)
  \/ ResetErase(t)
  \/ ResetUnlock(t)

NextLocks ==
  \E t \in Threads :
    \/ \E type \in EventTypes : \E own \in 0..Len(handles) : EnterSubscribe(t, type, own)
    \/ \E type \in EventTypes : EnterPublish(t, type)
    \/ \E cb \in 1..Len(handles) : EnterReset(t, cb)
    \/ Proceed(t)

\* A bus with the subscriptions of the main thread; the threads start.
InitLocks ==
  /\ SingleAtRest(default_sanitize_html_settings)
  /\ PairAtRest
  /\ ResultAtRest
  /\ HandleAtRest
  /\ \E types \in InitialSubscribers :
       /\ m_topics = InitialTopics(types, Len(types))
       /\ m_mutex = [T \in DOMAIN InitialTopics(types, Len(types)) |-> 0]
       /\ handles = [k \in 1..Len(types) |-> HeldIn(InitialHandle(types, k), 0)]
  /\ m_map_mutex = 0
  /\ bus_stack = [t \in Threads |-> [frames |-> <<>>, calls |-> 0]]
  /\ thread = <<>>
  /\ received = <<>>
  /\ published = <<>>

\* A thread that can take a step of its call takes it in the end.
SpecLocks ==
  InitLocks /\ [][NextLocks]_vars /\ \A t \in Threads : WF_vars(Proceed(t))


----------------------------------------------------------------------------
(* C37: no thread waits for ever for a mutex of the bus.  A thread that    *)
(* is about to lock m_map_mutex holds no topic mutex, a callback runs on a *)
(* thread that holds no mutex, no set of threads waits for mutexes held    *)
(* inside the set, and every call that was entered returns, also when it   *)
(* was made by a callback of the bus.                                      *)

\* The mutexes held by thread t.
HeldBy(t) ==
  (IF m_map_mutex = t THEN {"map"} ELSE {}) \cup {T \in DOMAIN m_mutex : m_mutex[T] = t}

\* The holder of the mutex thread t is about to lock, 0 when it is free or
\* when t is not about to lock one.
WaitsFor(t) ==
  IF ~Busy(t) THEN 0
  ELSE IF Top(t).pc = "lock_map" THEN m_map_mutex
  ELSE IF Top(t).pc = "lock_topic" THEN m_mutex[Top(t).type]
  ELSE 0

MapBeforeTopic ==
  \A t \in Threads :
    (Busy(t) /\ Top(t).pc = "lock_map") => HeldBy(t) \ {"map"} = {}

CallbacksHoldNothing ==
  \A t \in Threads : At(t, "publish", "in_callback") => HeldBy(t) = {}

NoWaitCycle ==
  \A waiting \in (SUBSET Threads) \ {{}} :
    \E t \in waiting : WaitsFor(t) \notin waiting

EveryCallReturns ==
  \A t \in Threads : \A depth \in 1..MaxBusCalls :
    (Len(Frames(t)) >= depth) ~> (Len(Frames(t)) < depth)

C37_DeadlockFree ==
  /\ [](MapBeforeTopic /\ CallbacksHoldNothing /\ NoWaitCycle)
  /\ EveryCallReturns

====
